---- MODULE Spec2Model ----
(***************************************************************************)
(* Action Execution Engine of chirp-automation (src/src/worker/runner.ts,  *)
(* first ActionRunner class, lines 45-563; utils/time in                   *)
(* src/unnamed/part_004).                                                  *)
(*                                                                         *)
(* The engine is a single-threaded JavaScript object.  A state of the      *)
(* model is the engine between two macrotasks: every action below is one   *)
(* macrotask (an enqueue call, the completion of a device or file          *)
(* operation, the firing of a timer) together with all the synchronous     *)
(* code and promise reactions that run before the engine suspends again.   *)
(* Wall-clock time is abstract: an armed timer may fire at any moment.     *)
(***************************************************************************)
EXTENDS Integers, Sequences, FiniteSets, TLC

\* ------------------------------------------------------------------ bounds

\* Number of enqueue calls explored: against the queue's action table, and
\* against the action tables of the single steps.
MaxJobs == 2
MaxStepJobs == 1
\* retry.attempts and repeat.count range over 1..MaxLoop.
MaxLoop == 2
\* The device fails at most MaxFaults operations.
MaxFaults == 1
\* The clock runs from 0 to MaxTime in steps of TickMs (milliseconds).
MaxTime == 1500
TickMs == 250

\* ------------------------------------------------------- program constants

\* An optional field that is absent (undefined).
NoValue == -1
\* RunnerOptions.defaultTimeoutMs as the server passes it.
defaultTimeoutMs == 30000
\* sleep(step.delayMs ?? 500) in runWithRetry.
RetryDefaultDelayMs == 500
\* RunnerOptions.stepPollMs as the server passes it.
stepPollMs == 500
\* ActionRunner.UI_CACHE_TTL_MS
UI_CACHE_TTL_MS == 500

\* ------------------------------------------------------------- data model

NoSteps == << >>

\* A Step of config/actions.ts; every record carries every field so that
\* steps of different types can be compared.  n is attempts (retry) or
\* count (repeat); ms is timeoutMs, durationMs or delayMs; id names the
\* step inside its action.
\* What findAnySelectorBounds gives: null, a pair, or the Error of
\* parseBounds thrown through it.
NoSelector == [n \in {} |-> ""]

Step(type, id, n, ms, steps) ==
    [type |-> type, id |-> id, n |-> n, ms |-> ms, steps |-> steps,
     selectors |-> << >>, alreadyOpenSelector |-> NoSelector,
     package |-> "", activity |-> "", x |-> 0, y |-> 0,
     text |-> "", textContains |-> "", keyCode |-> 0,
     delayMsIfOpen |-> NoValue, delayMsIfLaunch |-> NoValue]

EnsureReady(id) == Step("ensure_emulator_ready", id, 0, NoValue, NoSteps)
Tap(id) == Step("tap_coordinates", id, 0, NoValue, NoSteps)
TapAt(id, x, y) == [Tap(id) EXCEPT !.x = x, !.y = y]
WakeAndUnlock(id) == Step("wake_and_unlock", id, 0, NoValue, NoSteps)
LaunchApp(id, package) ==
    [Step("launch_app", id, 0, NoValue, NoSteps) EXCEPT !.package = package]
EnsureAppOpen(id, package, alreadyOpenSelector, delayMsIfOpen, delayMsIfLaunch) ==
    [Step("ensure_app_open", id, 0, NoValue, NoSteps) EXCEPT
        !.package = package, !.alreadyOpenSelector = alreadyOpenSelector,
        !.delayMsIfOpen = delayMsIfOpen, !.delayMsIfLaunch = delayMsIfLaunch]
TapSelector(id, selector, timeoutMs) ==
    [Step("tap_selector", id, 0, timeoutMs, NoSteps) EXCEPT
        !.selectors = <<selector>>]
WaitForText(id, text, textContains, timeoutMs) ==
    [Step("wait_for_text", id, 0, timeoutMs, NoSteps) EXCEPT
        !.text = text, !.textContains = textContains]
WaitForSelector(id, selector, timeoutMs) ==
    [Step("wait_for_selector", id, 0, timeoutMs, NoSteps) EXCEPT
        !.selectors = <<selector>>]
WaitForAnySelector(id, selectors, timeoutMs) ==
    [Step("wait_for_any_selector", id, 0, timeoutMs, NoSteps) EXCEPT
        !.selectors = selectors]
InputText(id, text) ==
    [Step("input_text", id, 0, NoValue, NoSteps) EXCEPT !.text = text]
Keyevent(id, keyCode) ==
    [Step("keyevent", id, 0, NoValue, NoSteps) EXCEPT !.keyCode = keyCode]

\* createTextSelector: the selector of a wait_for_text step, holding the
\* fields of the step that are set.
createTextSelector(step) ==
    [f \in {g \in {"text", "textContains"} : step[g] # ""} |-> step[f]]
Sleep(id, ms) == Step("sleep", id, 0, ms, NoSteps)
Retry(id, n, ms, steps) == Step("retry", id, n, ms, steps)
Repeat(id, n, ms, steps) == Step("repeat", id, n, ms, steps)

NoStep == Step("none", "", 0, NoValue, NoSteps)

\* An ActionDefinition: steps and the optional timeoutMs.
Action(steps, timeoutMs) == [steps |-> steps, timeoutMs |-> timeoutMs]

\* The action tables (ActionConfig.actions) the engine is run against.
\* ConfigOpen serves the queue; the others hold one action each, built
\* around one composite step or one leading run.
ConfigOpen ==
    [actions |->
        [id \in {"open"} |->
            Action(<<EnsureReady("e1"), Sleep("z1", 2000), Tap("t1")>>, 1000)]]

ConfigBoot ==
    [actions |->
        [id \in {"boot"} |->
            Action(<<EnsureReady("e1"), EnsureReady("e2"), Tap("t1"),
                     EnsureReady("e3")>>, NoValue)]]

ConfigRetry(n, ms) ==
    [actions |->
        [id \in {"retry"} |->
            Action(<<Retry("r", n, ms, <<Tap("a"), Tap("b")>>)>>, NoValue)]]

ConfigRepeat(n, ms) ==
    [actions |->
        [id \in {"repeat"} |->
            Action(<<Repeat("p", n, ms, <<Tap("a")>>)>>, NoValue)]]

\* A retry step around a retry step around one leaf.
ConfigNested(n, m) ==
    [actions |->
        [id \in {"nested"} |->
            Action(<<Retry("r", n, 100, <<Retry("q", m, NoValue, <<Tap("a")>>)>>)>>,
                   NoValue)]]

\* A retry step around a repeat step around one leaf.
ConfigRetryRepeat(n, c) ==
    [actions |->
        [id \in {"retryrepeat"} |->
            Action(<<Retry("r", n, NoValue, <<Repeat("p", c, NoValue, <<Tap("a")>>)>>)>>,
                   NoValue)]]

ConfigLive ==
    [actions |->
        [id \in {"live"} |->
            Action(<<EnsureReady("e1"), Tap("t1"), Sleep("z1", 2000)>>, 1000)]]

QueueConfigs == {ConfigOpen}

StepConfigs ==
    {ConfigBoot}
    \cup {ConfigRetry(n, ms) : n \in 1..MaxLoop, ms \in {NoValue, 100}}
    \cup {ConfigRepeat(n, ms) : n \in 1..MaxLoop, ms \in {NoValue, 50}}

\* The tables of the composite steps nested in one another, with those of
\* the single steps.
NestConfigs ==
    StepConfigs
    \cup {ConfigNested(n, m) : n, m \in 1..MaxLoop}
    \cup {ConfigRetryRepeat(n, c) : n, c \in 1..MaxLoop}

\* Action ids a request may name: the ids of the table and one that is not
\* in it.
UnknownId == "nope"

\* Errors: kind and a number that tells two errors of a kind apart (the
\* ordinal of the failure inside its step list, the timeout in ms).
Err(kind, n) == [kind |-> kind, n |-> n]
NoErr == Err("none", 0)

\* ---------------------------------------------------------------- strings
\* A JavaScript string is a TLA+ string; Head, Tail, SubSeq, Len and \o
\* work on it as on a sequence of one-character strings.

\* haystack.includes(needle)
includes(haystack, needle) ==
    \E i \in 0..(Len(haystack) - Len(needle)) :
        SubSeq(haystack, i + 1, i + Len(needle)) = needle

\* text.replace(/c/g, by) for a one-character pattern c: every occurrence,
\* left to right, in one pass (the replacement is not scanned again).
RECURSIVE replaceAll(_, _, _)
replaceAll(text, c, by) ==
    IF text = "" THEN ""
    ELSE (IF Head(text) = c THEN by ELSE Head(text))
         \o replaceAll(Tail(text), c, by)

Digits == {"0", "1", "2", "3", "4", "5", "6", "7", "8", "9"}

DigitValue(c) ==
    CASE c = "0" -> 0 [] c = "1" -> 1 [] c = "2" -> 2 [] c = "3" -> 3
      [] c = "4" -> 4 [] c = "5" -> 5 [] c = "6" -> 6 [] c = "7" -> 7
      [] c = "8" -> 8 [] c = "9" -> 9

\* Number.parseInt(digits, 10) of a string of decimal digits.
RECURSIVE parseInt(_)
parseInt(digits) ==
    IF digits = "" THEN 0
    ELSE 10 * parseInt(SubSeq(digits, 1, Len(digits) - 1))
         + DigitValue(SubSeq(digits, Len(digits), Len(digits)))

\* `${n}` of a non-negative integer.
RECURSIVE toString(_)
toString(n) ==
    LET d == SubSeq("0123456789", (n % 10) + 1, (n % 10) + 1) IN
    IF n < 10 THEN d ELSE toString(n \div 10) \o d

\* ------------------------------------------------ adb.ts: escapeAdbText

\* escapeAdbText: nine replace passes, the backslash first.
escapeAdbText(text) ==
    LET r1 == replaceAll(text, "\\", "\\\\")
        r2 == replaceAll(r1, " ", "%s")
        r3 == replaceAll(r2, "&", "\\&")
        r4 == replaceAll(r3, "(", "\\(")
        r5 == replaceAll(r4, ")", "\\)")
        r6 == replaceAll(r5, "<", "\\<")
        r7 == replaceAll(r6, ">", "\\>")
        r8 == replaceAll(r7, "?", "\\?")
    IN  replaceAll(r8, "!", "\\!")

\* ------------------------------------- adb.ts: getForegroundPackage

\* The characters of a string; the classes [A-Za-z0-9_] and [A-Za-z0-9_.$].
CharsOf(s) == {SubSeq(s, i, i) : i \in 1..Len(s)}
WordChars ==
    CharsOf("abcdefghijklmnopqrstuvwxyzABCDEFGHIJKLMNOPQRSTUVWXYZ0123456789_")
ClassChars == WordChars \cup {".", "$"}
\* s[i - 1], "" outside the string.
charAt(s, i) == IF i >= 1 /\ i <= Len(s) THEN SubSeq(s, i, i) ELSE ""
isWordAt(s, i) == charAt(s, i) \in WordChars

\* null of "string | null": no package has the empty name.
NoPackage == ""

firstOf(hits) == CHOOSE i \in hits : \A j \in hits : i <= j
lastOf(hits) == CHOOSE i \in hits : \A j \in hits : j <= i

\* output.split("\n"): the text up to the first line break, then the
\* lines of what follows it.
lineBreaks(text) == {i \in 1..Len(text) : SubSeq(text, i, i) = "\n"}
RECURSIVE splitLines(_)
splitLines(text) ==
    IF lineBreaks(text) = {} THEN <<text>>
    ELSE <<SubSeq(text, 1, firstOf(lineBreaks(text)) - 1)>>
         \o splitLines(SubSeq(text, firstOf(lineBreaks(text)) + 1, Len(text)))

\* [A-Za-z0-9_]+ at position i of s (a word character): its last position.
RECURSIVE wordEnd(_, _)
wordEnd(s, i) == IF isWordAt(s, i + 1) THEN wordEnd(s, i + 1) ELSE i

\* [A-Za-z0-9_]+(?:\.[A-Za-z0-9_]+)* at position i of s, taken as far as it
\* goes: its last position and the number of its names past the first.
RECURSIVE dottedEnd(_, _, _)
dottedEnd(s, i, n) ==
    IF charAt(s, wordEnd(s, i) + 1) = "." /\ isWordAt(s, wordEnd(s, i) + 2)
    THEN dottedEnd(s, wordEnd(s, i) + 2, n + 1)
    ELSE [end |-> wordEnd(s, i), dots |-> n]

\* \b([A-Za-z0-9_]+(?:\.[A-Za-z0-9_]+)+) tried at position i of s: the last
\* position of the group, 0 if it does not match.  What follows the group
\* in either pattern is no word character and no ".", so the group can
\* only be the longest one.
groupAt(s, i) ==
    IF isWordAt(s, i) /\ ~isWordAt(s, i - 1) /\ dottedEnd(s, i, 0).dots >= 1
    THEN dottedEnd(s, i, 0).end ELSE 0

\* ...\/[A-Za-z0-9_.$]+ after the group that ends at position e.
componentAfter(s, e) ==
    /\ e > 0
    /\ charAt(s, e + 1) = "/"
    /\ charAt(s, e + 2) \in ClassChars

\* extractPackageName: the group of the leftmost match of the component
\* pattern, else of the leftmost match of the package pattern, else null.
groupFrom(s, hits) ==
    IF hits = {} THEN NoPackage
    ELSE SubSeq(s, firstOf(hits), groupAt(s, firstOf(hits)))

extractPackageName(line) ==
    IF {i \in 1..Len(line) : componentAfter(line, groupAt(line, i))} # {}
    THEN groupFrom(line, {i \in 1..Len(line) : componentAfter(line, groupAt(line, i))})
    ELSE groupFrom(line, {i \in 1..Len(line) : groupAt(line, i) > 0})

\* Mutant: the lines are searched from the first to the last.
RECURSIVE findFirstPackage(_, _)
findFirstPackage(lines, key) ==
    IF lines = << >> THEN NoPackage
    ELSE IF includes(Head(lines), key) /\ extractPackageName(Head(lines)) # NoPackage
    THEN extractPackageName(Head(lines))
    ELSE findFirstPackage(Tail(lines), key)

\* findLastPackage: from the last line to the first, the package of the
\* first line that includes key and holds one.
RECURSIVE findLastPackage(_, _)
findLastPackage(lines, key) ==
    IF lines = << >> THEN NoPackage
    ELSE IF includes(lines[Len(lines)], key)
            /\ extractPackageName(lines[Len(lines)]) # NoPackage
    THEN extractPackageName(lines[Len(lines)])
    ELSE findLastPackage(SubSeq(lines, 1, Len(lines) - 1), key)

\* What getForegroundPackage resolves with, and the shell commands it ran.
Resolved(package, shells) == [package |-> package, shells |-> shells]

\* getForegroundPackage after "dumpsys activity activities" answered.
foregroundFromActivities(activityLines) ==
    IF findLastPackage(activityLines, "topResumedActivity") # NoPackage
    THEN Resolved(findLastPackage(activityLines, "topResumedActivity"), 2)
    ELSE IF findLastPackage(activityLines, "mResumedActivity") # NoPackage
    THEN Resolved(findLastPackage(activityLines, "mResumedActivity"), 2)
    ELSE Resolved(findLastPackage(activityLines, "mFocusedActivity"), 2)

\* getForegroundPackage, given what "dumpsys window windows" answers and
\* what "dumpsys activity activities" answers if it is asked.
foregroundFromWindows(windowLines, activityOutput) ==
    IF findLastPackage(windowLines, "mCurrentFocus") # NoPackage
    THEN Resolved(findLastPackage(windowLines, "mCurrentFocus"), 1)
    ELSE IF findLastPackage(windowLines, "mFocusedApp") # NoPackage
    THEN Resolved(findLastPackage(windowLines, "mFocusedApp"), 1)
    ELSE foregroundFromActivities(splitLines(activityOutput))

getForegroundPackage(windowOutput, activityOutput) ==
    foregroundFromWindows(splitLines(windowOutput), activityOutput)

\* ------------------------------------------------------- uiautomator.ts

\* Bounds, and the Error parseBounds throws.
Bounds(l, t, r, b) ==
    [ok |-> TRUE, left |-> l, top |-> t, right |-> r, bottom |-> b]
InvalidBounds == [ok |-> FALSE, left |-> 0, top |-> 0, right |-> 0, bottom |-> 0]

\* \d+ at position i of s: the position after the longest run of digits
\* that starts at i (i itself if there is none).
RECURSIVE digitsEnd(_, _)
digitsEnd(s, i) ==
    IF i <= Len(s) /\ SubSeq(s, i, i) \in Digits THEN digitsEnd(s, i + 1) ELSE i

\* The literal lit at position i of s: the position after it, 0 if absent.
literalEnd(s, i, lit) ==
    IF i > 0 /\ i + Len(lit) - 1 <= Len(s) /\ SubSeq(s, i, i + Len(lit) - 1) = lit
    THEN i + Len(lit) ELSE 0

\* (\d+) at position i of s: the position after it, 0 if there is no digit.
groupEnd(s, i) == IF i > 0 /\ digitsEnd(s, i) > i THEN digitsEnd(s, i) ELSE 0

\* /\[(\d+),(\d+)\]\[(\d+),(\d+)\]/ tried at position i of s: the four
\* groups, or << >>.  A run of digits is followed by a literal that is not
\* a digit, so only the longest run can match.
matchAt(s, i) ==
    LET a1 == literalEnd(s, i, "[")
        a2 == groupEnd(s, a1)
        b1 == literalEnd(s, a2, ",")
        b2 == groupEnd(s, b1)
        c1 == literalEnd(s, b2, "][")
        c2 == groupEnd(s, c1)
        d1 == literalEnd(s, c2, ",")
        d2 == groupEnd(s, d1)
        e1 == literalEnd(s, d2, "]")
    IN  IF e1 = 0 THEN << >>
        ELSE <<SubSeq(s, a1, a2 - 1), SubSeq(s, b1, b2 - 1),
               SubSeq(s, c1, c2 - 1), SubSeq(s, d1, d2 - 1)>>

\* bounds.match(...): the pattern has no anchors, so the leftmost position
\* of the string at which it matches is taken.
regexMatch(s) ==
    LET hits == {i \in 1..Len(s) : matchAt(s, i) # << >>} IN
    IF hits = {} THEN << >>
    ELSE matchAt(s, CHOOSE i \in hits : \A j \in hits : i <= j)

\* if (!match) throw ...; the four groups as numbers.
matchBounds(match) ==
    IF match = << >> THEN InvalidBounds
    ELSE Bounds(parseInt(match[1]), parseInt(match[2]),
                parseInt(match[3]), parseInt(match[4]))

parseBounds(bounds) == matchBounds(regexMatch(bounds))

\* Math.round(n / 2) for an integer n: a half is rounded up.
roundHalf(n) == (n + 1) \div 2

\* Mutant: the top left corner instead of the centre.
boundsCenterCorner(bounds) == [x |-> bounds.left, y |-> bounds.top]

boundsCenter(bounds) ==
    [x |-> roundHalf(bounds.left + bounds.right),
     y |-> roundHalf(bounds.top + bounds.bottom)]

\* An element of a parsed dump: its attributes ("" for an attribute that is
\* absent or empty: extractNodeFields and collectNodes treat both alike)
\* and, under the key node, its child elements in document order.
Node(text, resourceId, contentDesc, bounds, children) ==
    [text |-> text, resourceId |-> resourceId, contentDesc |-> contentDesc,
     bounds |-> bounds, node |-> children]

\* parser.parse(xml) of a dump: the hierarchy element and its children.
Hierarchy(children) == Node("", "", "", "", children)

\* collectNodes: a record that has bounds is pushed, then its children are
\* visited in order (pre-order).
RECURSIVE collectNodes(_), collectEntries(_)
collectNodes(value) ==
    (IF value.bounds # "" THEN <<value>> ELSE << >>) \o collectEntries(value.node)
collectEntries(entries) ==
    IF entries = << >> THEN << >>
    ELSE collectNodes(Head(entries)) \o collectEntries(Tail(entries))

extractNodeFields(node) ==
    [text |-> node.text, resourceId |-> node.resourceId,
     contentDesc |-> node.contentDesc, bounds |-> node.bounds]

\* A Selector is a record holding the fields that are present.
\* selector.f && ...: the field is present and not the empty string.
truthy(selector, f) == f \in DOMAIN selector /\ selector[f] # ""

\* Mutant: one satisfied field is enough.
matchesSelectorAnyField(fields, selector) ==
    \/ truthy(selector, "text") /\ fields.text = selector.text
    \/ truthy(selector, "textContains")
            /\ includes(fields.text, selector.textContains)
    \/ truthy(selector, "resourceId") /\ fields.resourceId = selector.resourceId
    \/ truthy(selector, "resourceIdContains")
            /\ includes(fields.resourceId, selector.resourceIdContains)
    \/ truthy(selector, "contentDesc") /\ fields.contentDesc = selector.contentDesc
    \/ truthy(selector, "contentDescContains")
            /\ includes(fields.contentDesc, selector.contentDescContains)

matchesSelector(fields, selector) ==
    IF truthy(selector, "text") /\ fields.text # selector.text THEN FALSE
    ELSE IF truthy(selector, "textContains")
            /\ ~includes(fields.text, selector.textContains) THEN FALSE
    ELSE IF truthy(selector, "resourceId")
            /\ fields.resourceId # selector.resourceId THEN FALSE
    ELSE IF truthy(selector, "resourceIdContains")
            /\ ~includes(fields.resourceId, selector.resourceIdContains) THEN FALSE
    ELSE IF truthy(selector, "contentDesc")
            /\ fields.contentDesc # selector.contentDesc THEN FALSE
    ELSE IF truthy(selector, "contentDescContains")
            /\ ~includes(fields.contentDesc, selector.contentDescContains) THEN FALSE
    ELSE TRUE

NoMatch == [kind |-> "null", selector |-> NoSelector, bounds |-> InvalidBounds]
Match(selector, bounds) ==
    [kind |-> IF bounds.ok THEN "match" ELSE "throw",
     selector |-> IF bounds.ok THEN selector ELSE NoSelector, bounds |-> bounds]

\* for (const selector of selectors) if (matchesSelector(fields, selector))
RECURSIVE firstSelector(_, _)
firstSelector(fields, selectors) ==
    IF selectors = << >> THEN NoMatch
    ELSE IF matchesSelector(fields, Head(selectors))
    THEN Match(Head(selectors), parseBounds(fields.bounds))
    ELSE firstSelector(fields, Tail(selectors))

\* for (const node of nodes) { if (!fields.bounds) continue; ... }
RECURSIVE firstNode(_, _)
firstNode(nodes, selectors) ==
    IF nodes = << >> THEN NoMatch
    ELSE LET fields == extractNodeFields(Head(nodes)) IN
         IF fields.bounds # "" /\ firstSelector(fields, selectors) # NoMatch
         THEN firstSelector(fields, selectors)
         ELSE firstNode(Tail(nodes), selectors)

\* Mutant: the loops are nested the other way, selectors outside.
RECURSIVE findAnySelectorBoundsSelectorMajor(_, _)
findAnySelectorBoundsSelectorMajor(xml, selectors) ==
    IF selectors = << >> THEN NoMatch
    ELSE IF firstNode(collectNodes(xml), <<Head(selectors)>>) # NoMatch
    THEN firstNode(collectNodes(xml), <<Head(selectors)>>)
    ELSE findAnySelectorBoundsSelectorMajor(xml, Tail(selectors))

\* findAnySelectorBounds; xml stands for the document the parser makes of
\* it.
findAnySelectorBounds(xml, selectors) ==
    IF Len(selectors) = 0 THEN NoMatch
    ELSE firstNode(collectNodes(xml), selectors)

\* findSelectorBounds: the bounds of the pair, or null.
findSelectorBounds(xml, selector) == findAnySelectorBounds(xml, <<selector>>)

\* ------------------------------------------------------- step interpreter
\* The promise of one top-level runSteps call ("body"): the stack of the
\* calls suspended in it, what it is suspended on, and what it has done.
\*   stack   frames, innermost last.  A "steps" frame is a runSteps call
\*           (steps, i = index + 1), a "retry" frame a runWithRetry call
\*           (i = attempt), a "repeat" frame a runRepeat call (i =
\*           iteration).
\*   wait    "op": a device operation is in flight; "sleep": a sleep timer
\*           is pending; "done": resolved; "failed": rejected with err.
\*   started, delays, slept   per composite step id: nested sequences
\*           started, sleeps between them, and their total duration.

Frame(kind, step, steps, i) ==
    [kind |-> kind, step |-> step, steps |-> steps, i |-> i]

RECURSIVE CompositeIds(_)
CompositeIds(steps) ==
    IF steps = << >> THEN {}
    ELSE LET s == Head(steps) IN
         (IF s.type \in {"retry", "repeat"}
          THEN {s.id} \cup CompositeIds(s.steps) ELSE {})
         \cup CompositeIds(Tail(steps))

\* What a suspended call shares with the rest of the engine and finds
\* again when it resumes: this.uiHierarchyCache and Date.now().  gen is the
\* number of screen-changing operations the device has executed.
NoCache == [xml |-> [doc |-> Hierarchy(<< >>), gen |-> -1], timestamp |-> -1]
Env(cache, now, gen) == [cache |-> cache, now |-> now, gen |-> gen]
NoEnv == Env(NoCache, 0, 0)
NoArg == << >>

NewBody(steps) ==
    [steps |-> steps,
     stack |-> <<Frame("steps", NoStep, steps, 1)>>,
     wait |-> "run", op |-> "", arg |-> NoArg, ms |-> 0, until |-> 0,
     env |-> NoEnv, stale |-> FALSE, err |-> NoErr, nfail |-> 0,
     started |-> [c \in CompositeIds(steps) |-> 0],
     delays |-> [c \in CompositeIds(steps) |-> 0],
     slept |-> [c \in CompositeIds(steps) |-> 0]]

NoBody ==
    [steps |-> NoSteps, stack |-> << >>, wait |-> "none", op |-> "",
     arg |-> NoArg, ms |-> 0, until |-> 0, env |-> NoEnv, stale |-> FALSE,
     err |-> NoErr, nfail |-> 0,
     started |-> [c \in {} |-> 0], delays |-> [c \in {} |-> 0],
     slept |-> [c \in {} |-> 0]]

Top(b) == b.stack[Len(b.stack)]
Pop(b) == [b EXCEPT !.stack = SubSeq(b.stack, 1, Len(b.stack) - 1)]
Push(b, f) == [b EXCEPT !.stack = Append(b.stack, f)]
SetTopIndex(b, i) == [b EXCEPT !.stack[Len(b.stack)].i = i]

\* await of a device operation (with its arguments), await sleep(ms)
AwaitCall(b, op, arg) == [b EXCEPT !.wait = "op", !.op = op, !.arg = arg]
AwaitOp(b, op) == AwaitCall(b, op, NoArg)
AwaitSleep(b, ms) ==
    [b EXCEPT !.wait = "sleep", !.ms = ms, !.until = b.env.now + ms]

\* Sleeping between the nested sequences of composite step s.
AwaitDelay(b, s, ms) ==
    [AwaitSleep(b, ms) EXCEPT !.delays[s.id] = @ + 1, !.slept[s.id] = @ + ms]

\* this.runSteps(actionId, step.steps) called by composite step s.
CallNested(b, s) ==
    Push([b EXCEPT !.started[s.id] = @ + 1], Frame("steps", NoStep, s.steps, 1))

RECURSIVE runSteps(_), executeStep(_, _), stepReturn(_), stepThrow(_, _)
RECURSIVE runWithRetry(_), runWithRetryReturn(_), runWithRetryCatch(_, _)
RECURSIVE runRepeat(_), runRepeatAfterIteration(_), runRepeatThrow(_, _)

\* executeStep returned normally: the for loop of the enclosing runSteps
\* goes on with the next index.
stepSuccess(b) == runSteps(SetTopIndex(b, Top(b).i + 1))

\* --------------------------------------------- steps that talk to the device

\* The frame of a call that awaits device operations: where it is suspended
\* (at) and the locals it holds across its awaits.
CallFrame(kind, step, at) ==
    [kind |-> kind, step |-> step, steps |-> NoSteps, i |-> 0, at |-> at,
     selectors |-> << >>, caller |-> "", deadline |-> 0, lastError |-> NoErr,
     stamp |-> 0, stepStart |-> 0, packageInForeground |-> FALSE]

SetTop(b, f) == [b EXCEPT !.stack[Len(b.stack)] = f]
At(b, at) == SetTop(b, [Top(b) EXCEPT !.at = at])

\* A call that awaits device operations ends by returning to executeStep
\* or by throwing; proceed carries the outcome on.
Return(b) == [b EXCEPT !.wait = "return"]
Throw(b, e) == [b EXCEPT !.wait = "throw", !.err = e]

\* What a device operation answers: it failed (ok = FALSE) or its value.
Answer(ok, value) == [ok |-> ok, value |-> value]

\* The Error of a failed device operation, told apart by its ordinal.
deviceError(b) == Err("device", b.nfail + 1)
failed(b) == [b EXCEPT !.nfail = @ + 1]

\* Mutant: invalidateUiCache leaves the cache as it is.
invalidateUiCacheNoop(b) == b

\* this.uiHierarchyCache = null
invalidateUiCache(b) == [b EXCEPT !.env.cache = NoCache]

\* Mutant: an entry is served whatever its age.
cacheHitAnyAge(b) == b.env.cache # NoCache

\* getUiHierarchy: the test of the cache against the TTL.
cacheHit(b) ==
    /\ b.env.cache # NoCache
    /\ b.env.now - b.env.cache.timestamp < UI_CACHE_TTL_MS

\* getUiHierarchy on a miss, up to its await: now is taken before the dump.
getUiHierarchyMiss(b) ==
    AwaitCall(SetTop(b, [Top(b) EXCEPT !.stamp = b.env.now]), "dumpUiHierarchy", NoArg)

\* getUiHierarchy up to its await, called by the call on top of the stack;
\* at names the await.  On a hit it resolves with the cached xml and the
\* caller resumes with no device operation ("cachedUiHierarchy"); on a miss
\* the dump is asked for.
getUiHierarchy(b, at) ==
    IF cacheHit(b)
    THEN AwaitCall(At(b, at \o "Cached"), "cachedUiHierarchy", <<b.env.cache.xml>>)
    ELSE getUiHierarchyMiss(At(b, at))

\* getUiHierarchy after the dump: the cache is set, stamped with that now.
storeDump(b, xml) ==
    [b EXCEPT !.env.cache = [xml |-> xml, timestamp |-> Top(b).stamp]]

\* getUiHierarchy returns xml to its caller.  stale remembers whether a
\* dump was ever returned that is older than a screen-changing operation
\* the device has executed.
readSnapshot(b, xml) == [b EXCEPT !.stale = @ \/ xml.gen < b.env.gen]

\* const { x, y } = boundsCenter(bounds); inputTap(x, y): the arguments.
centerPoint(c) == <<c.x, c.y>>
tapPoint(bounds) == centerPoint(boundsCenter(bounds))

\* checkAndDismissSystemUiDialog, up to its tap.
dialogSelectors ==
    <<[textContains |-> "System UI isn't responding"],
      [textContains |-> "Process system isn't responding"],
      [textContains |-> "System UI is not responding"]>>
waitButtonSelectors == <<[text |-> "Wait"], [text |-> "WAIT"]>>

\* dialogSelectors.some((s) => findSelectorBounds(xml, s)): "true", "false",
\* or "throw" when a matched element has no valid bounds.
RECURSIVE someSelectorFound(_, _)
someSelectorFound(doc, selectors) ==
    IF selectors = << >> THEN "false"
    ELSE LET r == findSelectorBounds(doc, Head(selectors)) IN
         IF r.kind = "throw" THEN "throw"
         ELSE IF r.kind = "match" THEN "true"
         ELSE someSelectorFound(doc, Tail(selectors))

\* Mutant: the dialog is dismissed with a tap whether it shows a Wait
\* button or not.
dialogOutcomeTextOnly(hasDialog, waitResult) ==
    IF hasDialog = "throw" THEN [kind |-> "throw", at |-> << >>]
    ELSE IF hasDialog = "false" THEN [kind |-> "none", at |-> << >>]
    ELSE IF waitResult.kind = "throw" THEN [kind |-> "throw", at |-> << >>]
    ELSE IF waitResult.kind = "null" THEN [kind |-> "tap", at |-> <<0, 0>>]
    ELSE [kind |-> "tap", at |-> tapPoint(waitResult.bounds)]

\* The outcome of checkAndDismissSystemUiDialog given hasDialog and
\* waitResult: no dialog or no Wait button ("none"), an exception
\* ("throw"), or the tap to make, at the centre of the button.
dialogOutcome(hasDialog, waitResult) ==
    IF hasDialog = "throw" THEN [kind |-> "throw", at |-> << >>]
    ELSE IF hasDialog = "false" THEN [kind |-> "none", at |-> << >>]
    ELSE IF waitResult.kind = "throw" THEN [kind |-> "throw", at |-> << >>]
    ELSE IF waitResult.kind = "null" THEN [kind |-> "none", at |-> << >>]
    ELSE [kind |-> "tap", at |-> tapPoint(waitResult.bounds)]

checkDialog(doc) ==
    dialogOutcome(someSelectorFound(doc, dialogSelectors),
                  findAnySelectorBounds(doc, waitButtonSelectors))

\* Mutant: an exception raised during a poll leaves the wait at once.
waitCaughtRethrow(b, e) == Throw(Pop(b), e)

\* waitForSelector / waitForAnySelector: catch (error) { lastError = error }
\* and the sleep that follows it.
waitCaught(b, e) ==
    AwaitSleep(SetTop(b, [Top(b) EXCEPT !.lastError = e, !.at = "sleep"]), stepPollMs)

\* waitForSelector returns bounds: tapSelector goes on with the tap, a
\* wait step is over.
waitFound(b, bounds) ==
    IF Top(b).caller = "tapSelector"
    THEN AwaitCall(Pop(b), "inputTap", tapPoint(bounds))
    ELSE Return(Pop(b))

\* The body of the loop given result (findSelectorBounds or
\* findAnySelectorBounds) and, for no result, the outcome w of
\* checkAndDismissSystemUiDialog.
waitPolled(b, result, w) ==
    IF result.kind = "throw" THEN waitCaught(b, Err("invalid_bounds", 0))
    ELSE IF result.kind = "match" THEN waitFound(b, result.bounds)
    ELSE IF w.kind = "throw" THEN waitCaught(b, Err("invalid_bounds", 0))
    ELSE IF w.kind = "tap" THEN AwaitCall(At(b, "watchdogTap"), "inputTap", w.at)
    ELSE AwaitSleep(At(b, "sleep"), stepPollMs)

\* The body of the loop after const xml = await this.getUiHierarchy().
waitSnapshot(b, xml) ==
    waitPolled(b, findAnySelectorBounds(xml.doc, Top(b).selectors),
               checkDialog(xml.doc))

\* The error thrown when the deadline is reached with no error remembered.
notFoundError(caller) ==
    IF caller = "waitForAnySelector" THEN Err("no_selectors_matched", 0)
    ELSE Err("selector_not_found", 0)

\* Mutant: the loop gives up when the next poll would fall on or after
\* the deadline.
waitLoopEarly(b) ==
    LET f == Top(b) IN
    IF b.env.now + stepPollMs < f.deadline
    THEN getUiHierarchy(invalidateUiCache(b), "dump")
    ELSE IF f.lastError # NoErr THEN Throw(Pop(b), f.lastError)
    ELSE Throw(Pop(b), notFoundError(f.caller))

\* while (Date.now() < deadline) { invalidateUiCache(); getUiHierarchy() ...
\* After the loop the remembered error or the not-found error is thrown.
waitLoop(b) ==
    LET f == Top(b) IN
    IF b.env.now < f.deadline
    THEN getUiHierarchy(invalidateUiCache(b), "dump")
    ELSE IF f.lastError # NoErr THEN Throw(Pop(b), f.lastError)
    ELSE Throw(Pop(b), notFoundError(f.caller))

\* waitForSelector(selector, timeoutMs) and waitForAnySelector(selectors,
\* timeoutMs), called by caller, up to the first await.  timeoutMs is
\* positive, so the loop is entered: the cache is emptied and
\* getUiHierarchy is called.
waitForSelectors(b, step, selectors, caller) ==
    getUiHierarchy(invalidateUiCache(
        Push(b, [CallFrame("wait", step, "dump") EXCEPT
            !.selectors = selectors, !.caller = caller,
            !.deadline = b.env.now
                + (IF step.ms = NoValue THEN defaultTimeoutMs ELSE step.ms)])),
        "dump")

\* A device operation awaited inside the wait loop has answered.
waitAnswered(b, ans) ==
    IF ~ans.ok THEN waitCaught(failed(b), deviceError(b))
    ELSE IF Top(b).at = "dump"
    THEN waitSnapshot(readSnapshot(storeDump(b, ans.value), ans.value), ans.value)
    ELSE IF Top(b).at = "dumpCached"
    THEN waitSnapshot(readSnapshot(b, ans.value), ans.value)
    ELSE AwaitSleep(At(invalidateUiCache(b), "pause"), stepPollMs)

\* this.adb.invalidateScreenCache(): a method of AdbClient that adb.ts does
\* not hold; it leaves the engine as it is.
invalidateScreenCache(b) == b

\* Mutant: the key events are sent whatever the screen state.
wakeAnsweredNoCheck(b, ans) ==
    LET f == Top(b) IN
    IF ~ans.ok THEN Throw(failed(b), deviceError(b))
    ELSE IF f.at = "isScreenOn"
    THEN AwaitCall(At(b, "wake"), "inputKeyevent", <<224>>)
    ELSE IF f.at = "wake" THEN AwaitCall(At(b, "unlock"), "inputKeyevent", <<82>>)
    ELSE IF f.at = "unlock" THEN AwaitCall(At(b, "home"), "inputKeyevent", <<3>>)
    ELSE Return(Pop(invalidateScreenCache(b)))

\* Mutant: the step throws once the home key has been sent, although the
\* device executed it.
wakeAnsweredHomeThrows(b, ans) ==
    LET f == Top(b) IN
    IF ~ans.ok THEN Throw(failed(b), deviceError(b))
    ELSE IF f.at = "isScreenOn"
    THEN IF ans.value THEN Return(Pop(b))
         ELSE AwaitCall(At(b, "wake"), "inputKeyevent", <<224>>)
    ELSE IF f.at = "wake" THEN AwaitCall(At(b, "unlock"), "inputKeyevent", <<82>>)
    ELSE IF f.at = "unlock" THEN AwaitCall(At(b, "home"), "inputKeyevent", <<3>>)
    ELSE Throw(b, Err("wake", 0))

\* Mutant: the menu key is sent before the wake key.
wakeAnsweredSwapped(b, ans) ==
    LET f == Top(b) IN
    IF ~ans.ok THEN Throw(failed(b), deviceError(b))
    ELSE IF f.at = "isScreenOn"
    THEN IF ans.value THEN Return(Pop(b))
         ELSE AwaitCall(At(b, "wake"), "inputKeyevent", <<82>>)
    ELSE IF f.at = "wake" THEN AwaitCall(At(b, "unlock"), "inputKeyevent", <<224>>)
    ELSE IF f.at = "unlock" THEN AwaitCall(At(b, "home"), "inputKeyevent", <<3>>)
    ELSE Return(Pop(invalidateScreenCache(b)))

\* wake_and_unlock after each of its awaits.
wakeAnswered(b, ans) ==
    LET f == Top(b) IN
    IF ~ans.ok THEN Throw(failed(b), deviceError(b))
    ELSE IF f.at = "isScreenOn"
    THEN IF ans.value THEN Return(Pop(b))
         ELSE AwaitCall(At(b, "wake"), "inputKeyevent", <<224>>)
    ELSE IF f.at = "wake" THEN AwaitCall(At(b, "unlock"), "inputKeyevent", <<82>>)
    ELSE IF f.at = "unlock" THEN AwaitCall(At(b, "home"), "inputKeyevent", <<3>>)
    ELSE Return(Pop(invalidateScreenCache(b)))

\* Mutant: the pause lasts the whole delay, whatever has gone by.
ensureAppOpenDelayFull(b, delayMs) ==
    IF delayMs # NoValue /\ delayMs > 0
    THEN AwaitSleep(At(b, "delay"), delayMs)
    ELSE Return(Pop(b))

\* ensure_app_open: if (delayMs && delayMs > 0) { remainingMs = delayMs -
\* (Date.now() - stepStart); if (remainingMs > 0) await sleep(remainingMs) }
ensureAppOpenDelay(b, delayMs) ==
    LET remainingMs == delayMs - (b.env.now - Top(b).stepStart) IN
    IF delayMs # NoValue /\ delayMs > 0 /\ remainingMs > 0
    THEN AwaitSleep(At(b, "delay"), remainingMs)
    ELSE Return(Pop(b))

\* Mutant: the package is launched whether the selector matched or not.
ensureAppOpenCheckedLaunch(b, result) ==
    IF result.kind = "throw" THEN Throw(b, Err("invalid_bounds", 0))
    ELSE AwaitCall(At(b, "launchSelector"), "startApp",
                   <<Top(b).step.package, Top(b).step.activity>>)

\* ensure_app_open with alreadyOpenSelector, given what
\* findSelectorBounds made of the snapshot.
ensureAppOpenChecked(b, result) ==
    IF result.kind = "throw" THEN Throw(b, Err("invalid_bounds", 0))
    ELSE IF result.kind = "match" THEN Return(Pop(b))
    ELSE AwaitCall(At(b, "launchSelector"), "startApp",
                   <<Top(b).step.package, Top(b).step.activity>>)

\* ensure_app_open with alreadyOpenSelector, after isSelectorVisible.
ensureAppOpenVisible(b, xml) ==
    ensureAppOpenChecked(b,
        findSelectorBounds(xml.doc, Top(b).step.alreadyOpenSelector))

\* ensure_app_open up to its first await.  isSelectorVisible reads the
\* snapshot through getUiHierarchy without emptying the cache first.
ensureAppOpen(b, step) ==
    LET b1 == Push(b, [CallFrame("ensure_app_open", step, "start") EXCEPT
                        !.stepStart = b.env.now])
    IN  IF step.alreadyOpenSelector # NoSelector
        THEN getUiHierarchy(b1, "visible")
        ELSE AwaitCall(At(b1, "foreground"), "getForegroundPackage", NoArg)

\* ensure_app_open after each of its awaits.
ensureAppOpenAnswered(b, ans) ==
    LET f == Top(b)
        step == f.step
    IN  IF ~ans.ok THEN Throw(failed(b), deviceError(b))
        ELSE IF f.at = "visibleCached"
        THEN ensureAppOpenVisible(readSnapshot(b, ans.value), ans.value)
        ELSE IF f.at = "visible"
        THEN ensureAppOpenVisible(readSnapshot(storeDump(b, ans.value), ans.value),
                                  ans.value)
        ELSE IF f.at = "launchSelector"
        THEN ensureAppOpenDelay(invalidateUiCache(b), step.delayMsIfLaunch)
        ELSE IF f.at = "foreground"
        THEN IF ans.value # step.package
             THEN AwaitCall(At(b, "launchPackage"), "startApp",
                            <<step.package, step.activity>>)
             ELSE ensureAppOpenDelay(
                    SetTop(b, [f EXCEPT !.packageInForeground = TRUE]),
                    step.delayMsIfOpen)
        ELSE ensureAppOpenDelay(invalidateUiCache(b), step.delayMsIfLaunch)

\* The cases of executeStep that talk to the device beyond one plain
\* operation, up to the first await of the step.
DeviceSteps ==
    {"wake_and_unlock", "launch_app", "ensure_app_open", "tap_selector",
     "tap_coordinates", "wait_for_text", "wait_for_selector",
     "wait_for_any_selector", "input_text", "keyevent"}

executeDeviceStep(b, step) ==
    CASE step.type = "wake_and_unlock" ->
            AwaitCall(Push(b, CallFrame("wake_and_unlock", step, "isScreenOn")),
                      "isScreenOn", NoArg)
      [] step.type = "launch_app" ->
            AwaitCall(b, "startApp", <<step.package, step.activity>>)
      [] step.type = "ensure_app_open" -> ensureAppOpen(b, step)
      [] step.type = "tap_selector" ->
            waitForSelectors(b, step, step.selectors, "tapSelector")
      [] step.type = "tap_coordinates" ->
            AwaitCall(b, "inputTap", <<step.x, step.y>>)
      [] step.type = "wait_for_text" ->
            waitForSelectors(b, step, <<createTextSelector(step)>>, "waitForSelector")
      [] step.type = "wait_for_selector" ->
            waitForSelectors(b, step, step.selectors, "waitForSelector")
      [] step.type = "wait_for_any_selector" ->
            waitForSelectors(b, step, step.selectors, "waitForAnySelector")
      [] step.type = "input_text" ->
            AwaitCall(b, "inputText", <<escapeAdbText(step.text)>>)
      [] OTHER -> AwaitCall(b, "inputKeyevent", <<step.keyCode>>)

\* The for loop of runSteps: execute steps[index], or resolve at the end.
runSteps(b) ==
    LET f == Top(b) IN
    IF f.i <= Len(f.steps)
    THEN executeStep(b, f.steps[f.i])
    ELSE stepReturn(Pop(b))

\* The switch of executeStep, up to the first await of the step.
executeStep(b, step) ==
    CASE step.type = "ensure_emulator_ready" -> AwaitOp(b, "waitForDevice")
      [] step.type \in DeviceSteps -> executeDeviceStep(b, step)
      [] step.type = "sleep" -> AwaitSleep(b, step.ms)
      [] step.type = "retry" ->
            runWithRetry(Push(b, Frame("retry", step, NoSteps, 1)))
      [] step.type = "repeat" ->
            runRepeat(Push(b, Frame("repeat", step, NoSteps, 1)))
      [] OTHER -> stepThrow(b, Err("unsupported", 0))

\* A runSteps call resolved and its frame is gone: its caller resumes.
stepReturn(b) ==
    IF b.stack = << >>
    THEN [b EXCEPT !.wait = "done", !.op = "", !.arg = NoArg, !.ms = 0, !.until = 0]
    ELSE IF Top(b).kind = "retry" THEN runWithRetryReturn(b)
    ELSE runRepeatAfterIteration(b)

\* An exception leaves the innermost call.  runSteps and executeStep have
\* no handler; runWithRetry has one; runRepeat has none.
stepThrow(b, e) ==
    IF b.stack = << >>
    THEN [b EXCEPT !.wait = "failed", !.err = e, !.op = "", !.arg = NoArg,
                   !.ms = 0, !.until = 0]
    ELSE IF Top(b).kind = "retry" THEN runWithRetryCatch(b, e)
    ELSE IF Top(b).kind = "repeat" THEN runRepeatThrow(b, e)
    ELSE stepThrow(Pop(b), e)

\* Mutant: the attempts are counted over all the calls of the step, not
\* from 1 in each call.
runWithRetryCarried(b) ==
    LET f == Top(b) IN
    IF f.i <= f.step.n /\ b.started[f.step.id] < f.step.n
    THEN runSteps(CallNested(b, f.step))
    ELSE stepSuccess(Pop(b))

\* for (attempt = 1; attempt <= step.attempts; ...) { await runSteps(...)
runWithRetry(b) ==
    LET f == Top(b) IN
    IF f.i <= f.step.n
    THEN runSteps(CallNested(b, f.step))
    ELSE stepSuccess(Pop(b))

\* Mutant: the return after a successful attempt is missing.
runWithRetryNoReturn(b) == runWithRetry(SetTopIndex(b, Top(b).i + 1))

\* await this.runSteps(...); return;
runWithRetryReturn(b) == stepSuccess(Pop(b))

retryDelayMs(step) == IF step.ms = NoValue THEN RetryDefaultDelayMs ELSE step.ms

\* Mutant: the last attempt is taken to be attempts - 1.
runWithRetryCatchOffByOne(b, e) ==
    LET f == Top(b) IN
    IF f.i >= f.step.n - 1
    THEN stepThrow(Pop(b), e)
    ELSE AwaitDelay(b, f.step, retryDelayMs(f.step))

\* catch (error) { if (attempt === step.attempts) throw error;
\*                 await sleep(step.delayMs ?? 500); }
runWithRetryCatch(b, e) ==
    LET f == Top(b) IN
    IF f.i = f.step.n
    THEN stepThrow(Pop(b), e)
    ELSE AwaitDelay(b, f.step, retryDelayMs(f.step))

\* for (iteration = 1; iteration <= step.count; ...) { await runSteps(...)
runRepeat(b) ==
    LET f == Top(b) IN
    IF f.i <= f.step.n
    THEN runSteps(CallNested(b, f.step))
    ELSE stepSuccess(Pop(b))

repeatDelayMs(step) == IF step.ms = NoValue THEN 0 ELSE step.ms

\* Mutant: the delay is not limited to iteration < step.count.
runRepeatAfterIterationAlwaysDelay(b) ==
    LET f == Top(b) IN
    IF repeatDelayMs(f.step) > 0
    THEN AwaitDelay(b, f.step, repeatDelayMs(f.step))
    ELSE runRepeat(SetTopIndex(b, f.i + 1))

\* if (iteration < step.count && (step.delayMs ?? 0) > 0) await sleep(...)
runRepeatAfterIteration(b) ==
    LET f == Top(b) IN
    IF f.i < f.step.n /\ repeatDelayMs(f.step) > 0
    THEN AwaitDelay(b, f.step, repeatDelayMs(f.step))
    ELSE runRepeat(SetTopIndex(b, f.i + 1))

\* Mutant: runRepeat throws an error of its own in place of the one it got.
runRepeatThrowWrapped(b, e) == stepThrow(Pop(b), Err("repeat", 0))

\* Mutant: runRepeat catches the exception of an iteration and goes on.
runRepeatThrowSwallowed(b, e) == runRepeatAfterIteration(b)

\* runRepeat has no try/catch: the exception of an iteration leaves it.
runRepeatThrow(b, e) == stepThrow(Pop(b), e)

\* The outcome of a call carried on: executeStep returns to the for loop
\* of runSteps, or the exception leaves executeStep.
proceed(b) ==
    IF b.wait = "return" THEN stepSuccess(b)
    ELSE IF b.wait = "throw" THEN stepThrow([b EXCEPT !.err = NoErr], b.err)
    ELSE b

\* The device operation the body awaits has completed.
opReturned(b, ok) ==
    IF ~ok
    THEN stepThrow([b EXCEPT !.nfail = @ + 1], Err("device", b.nfail + 1))
    ELSE IF b.op = "waitForDevice"
    THEN AwaitOp(b, "waitForBootComplete")
    ELSE stepSuccess(b)

\* The device operation the body awaits has answered: the call that
\* awaits it goes on.
opAnswered(b, ans) ==
    LET f == Top(b) IN
    IF f.kind = "steps" THEN opReturned(b, ans.ok)
    ELSE proceed(IF f.kind = "wait" THEN waitAnswered(b, ans)
                 ELSE IF f.kind = "wake_and_unlock" THEN wakeAnswered(b, ans)
                 ELSE ensureAppOpenAnswered(b, ans))

\* The sleep timer the body awaits has fired.
sleepFired(b) ==
    LET f == Top(b) IN
    IF f.kind = "steps" THEN stepSuccess(b)
    ELSE IF f.kind = "retry" THEN runWithRetry(SetTopIndex(b, f.i + 1))
    ELSE IF f.kind = "repeat" THEN runRepeat(SetTopIndex(b, f.i + 1))
    ELSE proceed(IF f.kind = "wait" THEN waitLoop(b) ELSE Return(Pop(b)))

\* this.runSteps(actionId, steps), run to its first await.
startBody(env, steps) == runSteps([NewBody(steps) EXCEPT !.env = env])

\* ------------------------------------------------------------ engine state

VARIABLES
    config,       \* the ActionConfig handed to enqueue
    requests,     \* action ids in the order enqueue was called; job k is
                  \* the k-th call
    runPromise,   \* per job: the promise enqueue returned
    queue,        \* per job: the value enqueue stored in this.queue
    pc,           \* per job: where job() / runAction is suspended
    caught,       \* per job: the error runAction's catch block received
    capture,      \* per job: the captureFailureArtifacts call ("none",
                  \* "running", "ok", "failed")
    pre,          \* per job: the promise of runSteps(actionId, preSteps)
    body,         \* per job: the promise of runSteps(actionId,
                  \* remainingSteps), raced against the deadline
    race,         \* per job: the Promise.race of withTimeout
    timer,        \* per job: the deadline timer of withTimeout
    inFlight,     \* this.inFlight
    lastResult,   \* this.lastResult
    deviceTrace,  \* the jobs on whose behalf device operations were issued,
                  \* in order, a run of operations of one job written once
    artifacts,    \* files written to artifactsDir: <<job, extension>>
    times,        \* per job: startTime of runAction, the local now of the
                  \* getUiHierarchy call runAction itself awaits (stamp),
                  \* and when the deadline timer of withTimeout is due
    now,          \* Date.now()
    uiHierarchyCache,   \* this.uiHierarchyCache
    device,       \* the device behind the AdbClient
    call          \* the last call of a pure function made on its own:
                  \* function, arguments, value

vars ==
    <<config, requests, runPromise, queue, pc, caught, capture, pre, body,
      race, timer, inFlight, lastResult, deviceTrace, artifacts, times, now,
      uiHierarchyCache, device, call>>

\* ActionResult; startedAt is the ordinal of the execution that made it.
ActionResult(actionId, status, error, startedAt) ==
    [actionId |-> actionId, status |-> status, error |-> error,
     startedAt |-> startedAt, durationMs |-> 0]
NoResult == ActionResult("", "none", NoErr, 0)

NoInFlight == [actionId |-> "", startedAt |-> 0]

\* A promise: pending, fulfilled with a result, or rejected with an
\* ActionError carrying result (status "error") or with a plain Error
\* (status "exception").
Pending == [state |-> "pending", result |-> NoResult]
Fulfilled(r) == [state |-> "fulfilled", result |-> r]
Rejected(r) == [state |-> "rejected", result |-> r]

\* The engine as one value, so that handlers compose as functions.
Engine ==
    [requests |-> requests, runPromise |-> runPromise, queue |-> queue,
     pc |-> pc, caught |-> caught, capture |-> capture, pre |-> pre,
     body |-> body,
     race |-> race, timer |-> timer, inFlight |-> inFlight, lastResult |-> lastResult,
     deviceTrace |-> deviceTrace, artifacts |-> artifacts, times |-> times,
     now |-> now, uiHierarchyCache |-> uiHierarchyCache, device |-> device]

Becomes(e) ==
    /\ requests' = e.requests
    /\ runPromise' = e.runPromise
    /\ queue' = e.queue
    /\ pc' = e.pc
    /\ caught' = e.caught
    /\ capture' = e.capture
    /\ pre' = e.pre
    /\ body' = e.body
    /\ race' = e.race
    /\ timer' = e.timer
    /\ inFlight' = e.inFlight
    /\ lastResult' = e.lastResult
    /\ deviceTrace' = e.deviceTrace
    /\ artifacts' = e.artifacts
    /\ times' = e.times
    /\ now' = e.now
    /\ uiHierarchyCache' = e.uiHierarchyCache
    /\ device' = e.device
    /\ UNCHANGED <<config, call>>

Jobs == 1..Len(requests)

\* The times a job holds before it has started.
NoTimes ==
    [startTime |-> 0, stamp |-> 0, deadline |-> 0, captures |-> 0, passes |-> 0]

\* A call of job k resumes: it finds the engine as it is now; when it
\* suspends again the cache is as the call left it.
envOf(e) == Env(e.uiHierarchyCache, e.now, e.device.gen)
resume(e, b) == [b EXCEPT !.env = envOf(e)]
suspend(b) == [b EXCEPT !.env = NoEnv]

\* A device operation is issued on behalf of job k.
issue(e, k) ==
    IF e.deviceTrace # << >> /\ e.deviceTrace[Len(e.deviceTrace)] = k
    THEN e
    ELSE [e EXCEPT !.deviceTrace = Append(@, k)]

\* ------------------------------------------------------------------ queue

\* Mutant: the tail is chained without .catch, so a rejection travels on.
queueTailNoCatch(p) ==
    IF p.state = "rejected" THEN p
    ELSE IF p.state = "pending" THEN Pending ELSE Fulfilled(NoResult)

\* Mutant: the tail is chained without .catch and a rejection leaves it
\* unsettled.
queueTailStuck(p) ==
    IF p.state = "fulfilled" THEN Fulfilled(NoResult) ELSE Pending

\* this.queue = runPromise.then(() => undefined).catch(() => undefined)
queueTail(p) ==
    IF p.state = "pending" THEN Pending ELSE Fulfilled(NoResult)

\* runPromise of job k settles; so does the queue entry derived from it.
settle(e, k, p) ==
    [e EXCEPT !.runPromise[k] = p, !.queue[k] = queueTail(p), !.pc[k] = "settled"]

\* The promise job k was chained on: this.queue when enqueue was called.
previousQueue(e, k) == IF k = 1 THEN Fulfilled(NoResult) ELSE e.queue[k - 1]

\* Mutant: the job is called at once instead of being chained on the queue.
canStartUnchained(e, k) == TRUE

\* this.queue.then(job): the reaction runs once the promise has settled.
canStart(e, k) == previousQueue(e, k).state # "pending"

\* Mutant: the lookup result is not tested, nothing is thrown.
resolveActionNoThrow(actionId, k) == NoResult

\* resolveAction: the error thrown for an id that is not in the table.
resolveAction(actionId, k) ==
    IF actionId \in DOMAIN config.actions
    THEN NoResult
    ELSE ActionResult(actionId, "error", Err("unknown", 0), k)

\* getState: the two fields as they are, nothing awaited, nothing assigned.
getState(e) == [inFlight |-> e.inFlight, lastResult |-> e.lastResult]

\* enqueue: chain the job, store the new tail, return the promise.
enqueue(e, actionId) ==
    [e EXCEPT !.requests = Append(@, actionId),
              !.runPromise = Append(@, Pending),
              !.queue = Append(@, Pending),
              !.pc = Append(@, "queued"),
              !.caught = Append(@, NoErr),
              !.capture = Append(@, "none"),
              !.pre = Append(@, NoBody),
              !.body = Append(@, NoBody),
              !.race = Append(@, Pending),
              !.timer = Append(@, "unset"),
              !.times = Append(@, NoTimes)]

\* -------------------------------------------------------------- runAction

timeoutMsOf(action) ==
    IF action.timeoutMs = NoValue THEN defaultTimeoutMs ELSE action.timeoutMs

\* Mutant: no split, every step runs under the deadline.
preStepsLenNone(steps) == 0

\* while (remainingSteps[0]?.type === "ensure_emulator_ready") ...: the
\* number of steps moved to preSteps.
RECURSIVE preStepsLen(_)
preStepsLen(steps) ==
    IF steps # << >> /\ Head(steps).type = "ensure_emulator_ready"
    THEN 1 + preStepsLen(Tail(steps))
    ELSE 0

preStepsOf(steps) == SubSeq(steps, 1, preStepsLen(steps))
remainingStepsOf(steps) == SubSeq(steps, preStepsLen(steps) + 1, Len(steps))

\* Mutant: the result is stored and the promise resolves while inFlight
\* still names the execution.
finishOkInFlightKept(e, k) ==
    LET r == [ActionResult(e.requests[k], "ok", NoErr, k)
                EXCEPT !.durationMs = e.now - e.times[k].startTime] IN
    settle([e EXCEPT !.lastResult = r], k, Fulfilled(r))

\* The success path after await withTimeout(...): lastResult, finally
\* inFlight = null, the promise resolves.
finishOk(e, k) ==
    LET r == [ActionResult(e.requests[k], "ok", NoErr, k)
                EXCEPT !.durationMs = e.now - e.times[k].startTime] IN
    settle([e EXCEPT !.lastResult = r, !.inFlight = NoInFlight], k, Fulfilled(r))

\* The catch block up to its await: message, then captureFailureArtifacts
\* invalidates the cache and issues the screencap.
enterCatch(e, k, err) ==
    issue([e EXCEPT !.pc[k] = "capture_screencap", !.caught[k] = err,
                    !.capture[k] = "running", !.uiHierarchyCache = NoCache,
                    !.times[k].captures = @ + 1], k)

\* Mutant: the failure path does not store its result in lastResult.
finishErrorNoLastResult(e, k) ==
    LET r == [ActionResult(e.requests[k], "error", e.caught[k], k)
                EXCEPT !.durationMs = e.now - e.times[k].startTime] IN
    settle([e EXCEPT !.inFlight = NoInFlight], k, Rejected(r))

\* The catch block after captureFailureArtifacts returned: lastResult,
\* throw new ActionError(result), finally inFlight = null.
finishError(e, k) ==
    LET r == [ActionResult(e.requests[k], "error", e.caught[k], k)
                EXCEPT !.durationMs = e.now - e.times[k].startTime] IN
    settle([e EXCEPT !.lastResult = r, !.inFlight = NoInFlight], k, Rejected(r))

\* Mutant: captureFailureArtifacts without its try/catch.
captureThrowsUncaught(ok) == ~ok

\* captureFailureArtifacts wraps everything it awaits in try/catch: whether
\* a failed capture (ok = FALSE) leaves it as an exception.
captureThrows(ok) == FALSE

\* captureFailureArtifacts is over (ok: nothing in it failed).
captureReturned(e, k, ok) ==
    LET e1 == [e EXCEPT !.capture[k] = IF ok THEN "ok" ELSE "failed"] IN
    IF captureThrows(ok)
    THEN settle([e1 EXCEPT !.inFlight = NoInFlight], k,
                Rejected(ActionResult("", "exception", Err("capture", 0), 0)))
    ELSE finishError(e1, k)

\* Promise.race([promise, timeoutPromise]) settles as its first settled
\* input does.
raceSettle(r, outcome) == IF r.state = "pending" THEN outcome ELSE r

TimeoutErr(e, k) == Err("timeout", timeoutMsOf(config.actions[e.requests[k]]))

\* Mutant: the timer's callback does not reject the raced promise.
onTimeoutNoReject(r, err) == r

\* The deadline timer's callback: reject(new Error("... timed out ...")).
onTimeout(r, err) == raceSettle(r, Rejected(ActionResult("", "exception", err, 0)))

\* Mutant: the timer is left armed when the race is over.
clearTimeoutNoop(t) == t

\* finally { if (timeoutId) clearTimeout(timeoutId); }
clearTimeout(t) == IF t = "armed" THEN "cleared" ELSE t

\* The deadline timer of job k fires.
timerFired(e, k) ==
    LET e1 == [e EXCEPT !.timer[k] = "fired",
                        !.race[k] = onTimeout(@, TimeoutErr(e, k))]
    IN  IF e.race[k].state = "pending" /\ e1.race[k].state = "rejected"
        THEN enterCatch(e1, k, e1.race[k].result.error)
        ELSE e1

\* The body promise b of job k has settled while runAction awaits the race.
raceBodySettled(e, k, b) ==
    LET out == IF b.wait = "done" THEN Fulfilled(NoResult)
               ELSE Rejected(ActionResult("", "exception", b.err, 0))
        e1 == [e EXCEPT !.race[k] = raceSettle(@, out), !.timer[k] = clearTimeout(@)]
    IN  IF e1.race[k].state = "fulfilled"
        THEN finishOk(e1, k)
        ELSE enterCatch(e1, k, e1.race[k].result.error)

\* withTimeout(this.runSteps(actionId, remainingSteps), timeoutMs, ...)
withTimeout(e, k, steps) ==
    LET b == startBody(envOf(e), steps)
        e1 == [e EXCEPT !.pc[k] = "main", !.body[k] = suspend(b),
                        !.uiHierarchyCache = b.env.cache, !.race[k] = Pending,
                        !.timer[k] = "armed",
                        !.times[k].deadline =
                            e.now + timeoutMsOf(config.actions[e.requests[k]])]
    IN  IF b.wait \in {"done", "failed"}
        THEN raceBodySettled(e1, k, b)
        ELSE IF b.wait = "op" THEN issue(e1, k) ELSE e1

\* From the split of the step list to the first await after it.
runActionSteps(e, k) ==
    LET steps == config.actions[e.requests[k]].steps IN
    IF preStepsLen(steps) > 0
    THEN issue([e EXCEPT !.pc[k] = "pre",
                         !.pre[k] = suspend(startBody(envOf(e), preStepsOf(steps)))], k)
    ELSE withTimeout(e, k, remainingStepsOf(steps))

\* The promise of the leading run moved to b (a device operation of it
\* returned): once it has settled, runAction goes on.
preProgress(e, k, b) ==
    LET e1 == [e EXCEPT !.pre[k] = suspend(b), !.uiHierarchyCache = b.env.cache] IN
    IF b.wait = "done"
    THEN withTimeout(e1, k, remainingStepsOf(config.actions[e.requests[k]].steps))
    ELSE IF b.wait = "failed" THEN enterCatch(e1, k, b.err)
    ELSE IF b.wait = "op" THEN issue(e1, k)
    ELSE e1

\* The promise of the remainder moved to b (a device operation returned, a
\* sleep ended).  runAction hears of it only through the race.
bodyProgress(e, k, b) ==
    LET e1 == [e EXCEPT !.body[k] = suspend(b), !.uiHierarchyCache = b.env.cache] IN
    IF b.wait = "op" THEN issue(e1, k)
    ELSE IF b.wait = "sleep" THEN e1
    ELSE IF e.race[k].state = "pending"
    THEN raceBodySettled(e1, k, b)
    ELSE e1

\* Mutant: the error of an unknown id is stored as the last result.
jobUnknownRecorded(e, k) ==
    IF previousQueue(e, k).state = "rejected"
    THEN settle(e, k, previousQueue(e, k))
    ELSE IF resolveAction(e.requests[k], k) # NoResult
    THEN settle([e EXCEPT !.lastResult = resolveAction(e.requests[k], k)], k,
                Rejected(resolveAction(e.requests[k], k)))
    ELSE issue([e EXCEPT !.inFlight = [actionId |-> e.requests[k], startedAt |-> k],
                         !.pc[k] = "dismiss_dump",
                         !.times[k].startTime = e.now, !.times[k].stamp = e.now,
                         !.times[k].passes = @ + 1,
                         !.uiHierarchyCache = NoCache], k)

\* job(): resolveAction, then runAction up to its first await (the dump of
\* dismissSystemUiDialog).  A job chained on a rejected promise is not
\* called: its promise rejects with the same reason.
job(e, k) ==
    IF previousQueue(e, k).state = "rejected"
    THEN settle(e, k, previousQueue(e, k))
    ELSE IF resolveAction(e.requests[k], k) # NoResult
    THEN settle(e, k, Rejected(resolveAction(e.requests[k], k)))
    ELSE issue([e EXCEPT !.inFlight = [actionId |-> e.requests[k], startedAt |-> k],
                         !.pc[k] = "dismiss_dump",
                         !.times[k].startTime = e.now, !.times[k].stamp = e.now,
                         !.times[k].passes = @ + 1,
                         !.uiHierarchyCache = NoCache], k)

\* Mutant: a failure of the pass reaches the catch block of runAction.
dismissDumpedThrows(e, k, out) ==
    IF out = "dialog" THEN issue([e EXCEPT !.pc[k] = "dismiss_tap"], k)
    ELSE IF out = "fail" THEN enterCatch(e, k, Err("device", 1))
    ELSE [e EXCEPT !.pc[k] = "mkdir"]

\* The dump of dismissSystemUiDialog returned: it failed or did not parse
\* ("fail"), shows no dialog with a Wait button ("clean"), or shows one
\* ("dialog"), which is tapped.  Every error is swallowed.
dismissDumped(e, k, out) ==
    IF out = "dialog"
    THEN issue([e EXCEPT !.pc[k] = "dismiss_tap"], k)
    ELSE [e EXCEPT !.pc[k] = "mkdir"]

\* fs.mkdir(artifactsDir) returned.
mkdirReturned(e, k, ok) ==
    IF ok THEN runActionSteps(e, k) ELSE enterCatch(e, k, Err("mkdir", 0))

\* captureFailureArtifacts: screencap returned; next the dump.
screencapReturned(e, k, ok) ==
    IF ok THEN issue([e EXCEPT !.pc[k] = "capture_dump"], k)
    ELSE captureReturned(e, k, FALSE)

\* captureFailureArtifacts: the dump returned; next the two writeFile.
captureDumpReturned(e, k, ok) ==
    IF ok THEN [e EXCEPT !.pc[k] = "capture_write"]
    ELSE captureReturned(e, k, FALSE)

ArtifactFiles == {"png", "xml"}

\* Promise.all of the two writeFile calls: written are the files that made
\* it to the directory.
writesReturned(e, k, written) ==
    captureReturned([e EXCEPT !.artifacts = @ \cup {<<k, x>> : x \in written}],
                    k, written = ArtifactFiles)

\* ---------------------------------------------------------------- actions

\* The device: is the screen on, the package in the foreground, the
\* document a dump shows, the number of screen-changing operations it has
\* executed (gen), the calls it recorded, and the operations it has failed.
Device(screenOn, foreground, doc) ==
    [screenOn |-> screenOn, foreground |-> foreground, doc |-> doc, gen |-> 0,
     calls |-> << >>, faults |-> 0]
\* A device of which nothing is known but that it answers or fails.
NoDevice == Device(TRUE, "", Hierarchy(<< >>))

Call(fn, in, out) == [fn |-> fn, in |-> in, out |-> out]
NoCall == Call("", << >>, << >>)


Start ==
    /\ requests = << >>
    /\ runPromise = << >>
    /\ queue = << >>
    /\ pc = << >>
    /\ caught = << >>
    /\ capture = << >>
    /\ pre = << >>
    /\ body = << >>
    /\ race = << >>
    /\ timer = << >>
    /\ inFlight = NoInFlight
    /\ lastResult = NoResult
    /\ deviceTrace = << >>
    /\ artifacts = {}
    /\ times = << >>
    /\ now = 0
    /\ uiHierarchyCache = NoCache
    /\ call = NoCall

Init == config \in QueueConfigs /\ Start /\ device = NoDevice

InitSteps == config \in StepConfigs /\ Start /\ device = NoDevice

\* POST /v1/actions/:actionId calls runner.enqueue(actionId, config).
Enqueue ==
    \E id \in DOMAIN config.actions \cup {UnknownId} :
        /\ Len(requests) < MaxJobs
        /\ Becomes(enqueue(Engine, id))

EnqueueStep ==
    \E id \in DOMAIN config.actions \cup {UnknownId} :
        /\ Len(requests) < MaxStepJobs
        /\ Becomes(enqueue(Engine, id))

\* The reaction this.queue.then(job) runs.
StartJob ==
    \E k \in Jobs :
        /\ pc[k] = "queued"
        /\ canStart(Engine, k)
        /\ Becomes(job(Engine, k))

DismissDumpReturn ==
    \E k \in Jobs, out \in {"fail", "clean", "dialog"} :
        /\ pc[k] = "dismiss_dump"
        /\ Becomes(dismissDumped(Engine, k, out))

\* The tap on the Wait button returned or failed: swallowed either way.
DismissTapReturn ==
    \E k \in Jobs :
        /\ pc[k] = "dismiss_tap"
        /\ Becomes([Engine EXCEPT !.pc[k] = "mkdir"])

MkdirReturn ==
    \E k \in Jobs, ok \in BOOLEAN :
        /\ pc[k] = "mkdir"
        /\ Becomes(mkdirReturned(Engine, k, ok))

\* A device operation of a step returns or fails.  Nothing cancels the
\* body of an action whose deadline has passed: it goes on.
DeviceReturn ==
    \E k \in Jobs, ok \in BOOLEAN :
        /\ body[k].wait = "op"
        /\ Becomes(bodyProgress(Engine, k, opReturned(resume(Engine, body[k]), ok)))

\* The same for a device operation of the leading run.
PreDeviceReturn ==
    \E k \in Jobs, ok \in BOOLEAN :
        /\ pre[k].wait = "op"
        /\ Becomes(preProgress(Engine, k, opReturned(resume(Engine, pre[k]), ok)))

SleepFire ==
    \E k \in Jobs :
        /\ body[k].wait = "sleep"
        /\ Becomes(bodyProgress(Engine, k, sleepFired(resume(Engine, body[k]))))

TimerFire ==
    \E k \in Jobs :
        /\ timer[k] = "armed"
        /\ Becomes(timerFired(Engine, k))

ScreencapReturn ==
    \E k \in Jobs, ok \in BOOLEAN :
        /\ pc[k] = "capture_screencap"
        /\ Becomes(screencapReturned(Engine, k, ok))

CaptureDumpReturn ==
    \E k \in Jobs, ok \in BOOLEAN :
        /\ pc[k] = "capture_dump"
        /\ Becomes(captureDumpReturned(Engine, k, ok))

WritesReturn ==
    \E k \in Jobs, written \in SUBSET ArtifactFiles :
        /\ pc[k] = "capture_write"
        /\ Becomes(writesReturned(Engine, k, written))

\* GET /v1/status calls runner.getState() between any two steps of the
\* engine: it is not chained on the queue and assigns nothing.
GetState == getState(Engine) \in {getState(Engine)} /\ UNCHANGED vars

Next ==
    \/ Enqueue
    \/ GetState
    \/ StartJob
    \/ DismissDumpReturn
    \/ DismissTapReturn
    \/ MkdirReturn
    \/ PreDeviceReturn
    \/ DeviceReturn
    \/ SleepFire
    \/ TimerFire
    \/ ScreencapReturn
    \/ CaptureDumpReturn
    \/ WritesReturn

Spec == Init /\ [][Next]_vars

\* What is pending completes: promise reactions run, device and file
\* operations return or fail, timers fire.  Requests arrive as they please.
\* The engine does not stop while one of these can happen.
Completion ==
    \/ StartJob
    \/ DismissDumpReturn
    \/ DismissTapReturn
    \/ MkdirReturn
    \/ PreDeviceReturn
    \/ DeviceReturn
    \/ SleepFire
    \/ TimerFire
    \/ ScreencapReturn
    \/ CaptureDumpReturn
    \/ WritesReturn

\* Something is pending, that is ENABLED <<Completion>>_vars: the guards of
\* the actions above (each of them changes the state when it is taken).
CanComplete ==
    \E k \in Jobs :
        \/ pc[k] = "queued" /\ canStart(Engine, k)
        \/ pc[k] \in {"dismiss_dump", "dismiss_tap", "mkdir", "capture_screencap",
                      "capture_dump", "capture_write"}
        \/ pre[k].wait = "op"
        \/ body[k].wait \in {"op", "sleep"}
        \/ timer[k] = "armed"

\* WF_vars(Completion), with ENABLED <<Completion>>_vars written out.
Fairness == []<>(~CanComplete) \/ []<><<Completion>>_vars

\* The queue under fairness, serving an action that ends on a sleep.
InitLive == config = ConfigLive /\ Start /\ device = NoDevice

SpecLive == InitLive /\ [][Next]_vars /\ Fairness

NextSteps ==
    \/ EnqueueStep
    \/ StartJob
    \/ DismissDumpReturn
    \/ DismissTapReturn
    \/ MkdirReturn
    \/ PreDeviceReturn
    \/ DeviceReturn
    \/ SleepFire
    \/ TimerFire
    \/ ScreencapReturn
    \/ CaptureDumpReturn
    \/ WritesReturn

\* One request at a time against the action tables of the single steps.
SpecSteps == InitSteps /\ [][NextSteps]_vars

InitNest == config \in NestConfigs /\ Start /\ device = NoDevice

\* The one request made against a table of nested steps.
EnqueueNest ==
    \E id \in DOMAIN config.actions \cup {UnknownId} :
        /\ requests = << >>
        /\ Becomes(enqueue(Engine, id))

NextNest ==
    \/ EnqueueNest
    \/ StartJob
    \/ DismissDumpReturn
    \/ DismissTapReturn
    \/ MkdirReturn
    \/ PreDeviceReturn
    \/ DeviceReturn
    \/ SleepFire
    \/ TimerFire
    \/ ScreencapReturn
    \/ CaptureDumpReturn
    \/ WritesReturn

\* One request against the action tables of the nested steps.
SpecNest == InitNest /\ [][NextNest]_vars

\* ------------------------------------------------ the engine and a device

\* The operations after which the screen may show something else.
ScreenChanging == {"inputTap", "inputKeyevent", "inputText", "startApp"}

\* What the device answers to an operation.
deviceValue(d, op) ==
    CASE op = "isScreenOn" -> d.screenOn
      [] op = "getForegroundPackage" -> d.foreground
      [] op = "dumpUiHierarchy" -> [doc |-> d.doc, gen |-> d.gen]
      [] OTHER -> TRUE

\* What an operation the device executed leaves behind: a screen-changing
\* operation is recorded; the wake key turns the screen on; a launch
\* brings the package to the foreground.
deviceEffect(d, op, arg) ==
    LET d1 == IF op \in ScreenChanging
              THEN [d EXCEPT !.gen = @ + 1, !.calls = Append(@, <<op>> \o arg)]
              ELSE d
    IN  IF op = "inputKeyevent" /\ arg[1] = 224 THEN [d1 EXCEPT !.screenOn = TRUE]
        ELSE IF op = "startApp" THEN [d1 EXCEPT !.foreground = arg[1]]
        ELSE d1

\* The device fails an operation.
deviceFault(d) == [d EXCEPT !.faults = @ + 1]

\* The outcomes an operation can have: it is executed, or, while the
\* device has faults left, it fails.
Outcomes == IF device.faults < MaxFaults THEN BOOLEAN ELSE {TRUE}

\* The engine after the device executed (ok) or failed op.
after(e, op, arg, ok) ==
    [e EXCEPT !.device = IF ok THEN deviceEffect(@, op, arg) ELSE deviceFault(@)]

\* The dump of dismissSystemUiDialog answered: getUiHierarchy sets the
\* cache, stamped with the time the dump was asked for, and
\* checkAndDismissSystemUiDialog looks at it.
dismissOutcome(w) ==
    IF w.kind = "tap" THEN "dialog" ELSE IF w.kind = "throw" THEN "fail" ELSE "clean"

dismissDumpAnswered(e, k, ok) ==
    IF ~ok THEN dismissDumped(e, k, "fail")
    ELSE dismissDumped(
            [e EXCEPT !.uiHierarchyCache =
                [xml |-> deviceValue(e.device, "dumpUiHierarchy"),
                 timestamp |-> e.times[k].stamp]],
            k, dismissOutcome(checkDialog(e.device.doc)))

\* The tap of checkAndDismissSystemUiDialog answered: after it the cache is
\* emptied; a failure is swallowed by dismissSystemUiDialog.
dismissTapped(e, k, ok) ==
    [e EXCEPT !.pc[k] = "mkdir",
              !.uiHierarchyCache = IF ok THEN NoCache ELSE @]

\* captureFailureArtifacts after the screencap: getUiHierarchy answers from
\* the cache when an abandoned body has filled it meanwhile.
screencapAnswered(e, k, ok) ==
    IF ok /\ cacheHit([env |-> envOf(e)])
    THEN [e EXCEPT !.pc[k] = "capture_write"]
    ELSE screencapReturned([e EXCEPT !.times[k].stamp = e.now], k, ok)

\* captureFailureArtifacts after its dump: the cache is set.
captureDumpAnswered(e, k, ok) ==
    captureDumpReturned(
        IF ok THEN [e EXCEPT !.uiHierarchyCache =
                        [xml |-> deviceValue(e.device, "dumpUiHierarchy"),
                         timestamp |-> e.times[k].stamp]]
        ELSE e, k, ok)

\* A device as a scenario sets it up.
Stub(screenOn, foreground, doc) == Device(screenOn, foreground, doc)

DocOpen == Hierarchy(<<Node("Open", "", "", "[100,200][300,250]", << >>)>>)
DocDialog ==
    Hierarchy(<<Node("System UI isn't responding", "", "", "[0,0][400,100]",
                     <<Node("Wait", "", "", "[10,20][30,40]", << >>)>>)>>)

\* The dialog without a Wait button.
DocNoWait ==
    Hierarchy(<<Node("System UI isn't responding", "", "", "[0,0][400,100]",
                     <<Node("Close app", "", "", "[10,20][30,40]", << >>)>>)>>)

\* The scenarios: an action table and the device it is run against.
Scenario(steps, timeoutMs, d) ==
    [config |-> [actions |-> [id \in {"run"} |-> Action(steps, timeoutMs)]],
     device |-> d]

ScenarioOpen ==
    Scenario(<<EnsureReady("e1"), WakeAndUnlock("w1"),
               EnsureAppOpen("o1", "com.app", NoSelector, NoValue, NoValue),
               TapSelector("t1", [text |-> "Open"], NoValue)>>,
             NoValue, Stub(FALSE, "com.other", DocOpen))
ScenarioMissing ==
    Scenario(<<WaitForSelector("s1", [text |-> "Missing"], 1000)>>,
             NoValue, Stub(TRUE, "com.app", DocOpen))
ScenarioAwake ==
    Scenario(<<WakeAndUnlock("w1"), Keyevent("k1", 4),
               EnsureAppOpen("o1", "com.app", NoSelector, 250, NoValue)>>,
             NoValue, Stub(TRUE, "com.app", DocOpen))
ScenarioVisible ==
    Scenario(<<TapSelector("t1", [text |-> "Open"], NoValue),
               EnsureAppOpen("o1", "com.app", [text |-> "Open"], NoValue, 250)>>,
             NoValue, Stub(TRUE, "com.other", DocOpen))
ScenarioDialog ==
    Scenario(<<WaitForAnySelector("a1", <<[text |-> "Open"], [text |-> "Wait"]>>, 500),
               WaitForText("x1", "", "Missing", 250),
               InputText("i1", "a b"), TapAt("c1", 5, 6), LaunchApp("l1", "com.app")>>,
             500, Stub(TRUE, "com.app", DocDialog))
\* No foreground package is resolved (getForegroundPackage returns null,
\* here the package name ""), and no element "Home" is on the screen.
ScenarioLaunch ==
    Scenario(<<EnsureAppOpen("o1", "com.app", NoSelector, NoValue, 500),
               EnsureAppOpen("o2", "com.next", [text |-> "Home"], NoValue, 500)>>,
             NoValue, Stub(TRUE, "", DocOpen))

ScenarioNoWait ==
    Scenario(<<WaitForText("x1", "", "Missing", 250)>>,
             NoValue, Stub(TRUE, "com.app", DocNoWait))

Scenarios ==
    {ScenarioOpen, ScenarioMissing, ScenarioAwake, ScenarioVisible, ScenarioDialog,
     ScenarioLaunch, ScenarioNoWait}

InitDevice ==
    /\ Start
    /\ \E s \in Scenarios : config = s.config /\ device = s.device

\* The one request of a scenario.
EnqueueScenario ==
    \E id \in DOMAIN config.actions :
        /\ requests = << >>
        /\ Becomes(enqueue(Engine, id))

\* The clock moves on.
Tick ==
    /\ now + TickMs <= MaxTime
    /\ Becomes([Engine EXCEPT !.now = @ + TickMs])

DismissDumpAnswer ==
    \E k \in Jobs, ok \in Outcomes :
        /\ pc[k] = "dismiss_dump"
        /\ Becomes(dismissDumpAnswered(
                after(Engine, "dumpUiHierarchy", NoArg, ok), k, ok))

\* The Wait button is tapped at the centre the dump gave; the document of
\* a device does not change, so it is the centre the device shows now.
DismissTapAnswer ==
    \E k \in Jobs, ok \in Outcomes :
        /\ pc[k] = "dismiss_tap"
        /\ Becomes(dismissTapped(
                after(Engine, "inputTap", checkDialog(device.doc).at, ok),
                k, ok))

\* A device operation of the leading run is answered.
PreDeviceAnswer ==
    \E k \in Jobs, ok \in Outcomes :
        /\ pre[k].wait = "op"
        /\ LET e == after(Engine, pre[k].op, pre[k].arg, ok) IN
           Becomes(preProgress(e, k,
                opAnswered(resume(e, pre[k]),
                           Answer(ok, deviceValue(device, pre[k].op)))))

\* A device operation of a step is answered.  Nothing cancels the body of
\* an action whose deadline has passed: it goes on.
DeviceAnswer ==
    \E k \in Jobs, ok \in Outcomes :
        /\ body[k].wait = "op"
        /\ body[k].op # "cachedUiHierarchy"
        /\ LET e == after(Engine, body[k].op, body[k].arg, ok) IN
           Becomes(bodyProgress(e, k,
                opAnswered(resume(e, body[k]),
                           Answer(ok, deviceValue(device, body[k].op)))))

\* A step that awaits getUiHierarchy resumes with the cached xml.
CachedHierarchyResume ==
    \E k \in Jobs :
        /\ body[k].wait = "op"
        /\ body[k].op = "cachedUiHierarchy"
        /\ Becomes(bodyProgress(Engine, k,
                opAnswered(resume(Engine, body[k]),
                           Answer(TRUE, body[k].arg[1]))))

\* The timer of a sleep fires, at its time or later.
SleepDue ==
    \E k \in Jobs :
        /\ body[k].wait = "sleep"
        /\ now >= body[k].until
        /\ Becomes(bodyProgress(Engine, k, sleepFired(resume(Engine, body[k]))))

\* The deadline timer of withTimeout fires, at its time or later.
TimerDue ==
    \E k \in Jobs :
        /\ timer[k] = "armed"
        /\ now >= times[k].deadline
        /\ Becomes(timerFired(Engine, k))

ScreencapAnswer ==
    \E k \in Jobs, ok \in Outcomes :
        /\ pc[k] = "capture_screencap"
        /\ Becomes(screencapAnswered(after(Engine, "screencap", NoArg, ok), k, ok))

CaptureDumpAnswer ==
    \E k \in Jobs, ok \in Outcomes :
        /\ pc[k] = "capture_dump"
        /\ Becomes(captureDumpAnswered(
                after(Engine, "dumpUiHierarchy", NoArg, ok), k, ok))

NextDevice ==
    \/ EnqueueScenario
    \/ StartJob
    \/ Tick
    \/ DismissDumpAnswer
    \/ DismissTapAnswer
    \/ MkdirReturn
    \/ PreDeviceAnswer
    \/ DeviceAnswer
    \/ CachedHierarchyResume
    \/ SleepDue
    \/ TimerDue
    \/ ScreencapAnswer
    \/ CaptureDumpAnswer
    \/ WritesReturn

\* One request against a device that records what it executes, under a
\* clock.
SpecDevice == InitDevice /\ [][NextDevice]_vars


\* ------------------------------------------- the pure functions on their own
\* Every function of adb.ts and uiautomator.ts that computes without the
\* device, applied to arguments drawn from the sets below.

\* Texts of input_text: up to two characters, among them every kind of
\* character escapeAdbText treats on its own.
TextAlphabet == {"a", "s", "%", " ", "\\", "&", "(", "!"}
Texts ==
    {""} \cup TextAlphabet \cup {a \o b : a \in TextAlphabet, b \in TextAlphabet}

\* bounds attributes: "[l,t][r,b]" and strings around it and short of it.
Coordinates == {0, 7, 12, 34, 56, 78}
RectString(l, t, r, b) ==
    "[" \o toString(l) \o "," \o toString(t) \o "][" \o toString(r) \o ","
        \o toString(b) \o "]"
RectStrings ==
    {RectString(l, t, r, b) : l \in Coordinates, t \in Coordinates,
                              r \in Coordinates, b \in Coordinates}
BoundsStrings ==
    RectStrings
    \cup {"x" \o s : s \in RectStrings}
    \cup {s \o "x" : s \in RectStrings}
    \cup {"[" \o s : s \in RectStrings}
    \cup {Tail(s) : s \in RectStrings}
    \cup {SubSeq(s, 1, Len(s) - 1) : s \in RectStrings}
    \cup {"", "[,][,]", "[-1,2][3,4]", "[1, 2][3,4]", "1,2,3,4"}

\* Selectors as the schema admits them: a field is absent or a non-empty
\* string, and one field at least is present.
SelectorFields ==
    {"text", "textContains", "resourceId", "resourceIdContains",
     "contentDesc", "contentDescContains"}
FieldValues ==
    [text |-> {"Open"}, textContains |-> {"pen", "x"},
     resourceId |-> {"id/btn"}, resourceIdContains |-> {"btn"},
     contentDesc |-> {"door"}, contentDescContains |-> {"oo"}]
Selectors ==
    UNION {{sel \in [D -> UNION {FieldValues[f] : f \in D}] :
                \A f \in D : sel[f] \in FieldValues[f]} :
           D \in (SUBSET SelectorFields) \ {{}}}
FieldsOfNodes ==
    [text : {"", "Open", "Opened"}, resourceId : {"", "id/btn", "id/btn2"},
     contentDesc : {"", "door", "indoor"}, bounds : {"[0,0][10,10]"}]

\* Elements, documents of one to three elements, selector lists of one or
\* two selectors.
Elements ==
    {Node("Open", "id/open", "", "[100,200][300,250]", << >>),
     Node("Open", "id/open2", "", "[1,2][3,4]", << >>),
     Node("Open", "id/open3", "", "", << >>),
     Node("Wait", "id/wait", "", "[0,0][50,51]", << >>),
     Node("Other", "", "door", "[10,10][20,20]", << >>)}
Documents ==
    {Hierarchy(<<a>>) : a \in Elements}
    \cup {Hierarchy(<<a, b>>) : a \in Elements, b \in Elements}
    \cup {Hierarchy(<<[a EXCEPT !.node = <<b>>], c>>) :
            a \in Elements, b \in Elements, c \in Elements}
ListSelectors ==
    {[text |-> "Open"], [text |-> "Wait"], [textContains |-> "O"],
     [contentDescContains |-> "oo"], [resourceId |-> "id/wait"]}
SelectorLists ==
    {<<a>> : a \in ListSelectors}
    \cup {<<a, b>> : a \in ListSelectors, b \in ListSelectors}

CallEscapeAdbText ==
    /\ call.fn = ""
    /\ \E a \in Texts, b \in Texts :
        /\ call' = Call("escapeAdbText", <<a, b>>,
                        <<escapeAdbText(a), escapeAdbText(b)>>)
        /\ UNCHANGED <<config, requests, runPromise, queue, pc, caught, capture,
                       pre, body, race, timer, inFlight, lastResult,
                       deviceTrace, artifacts, times, now, uiHierarchyCache,
                       device>>

CallParseBounds ==
    /\ call.fn = ""
    /\ \E s \in BoundsStrings :
        /\ call' = Call("parseBounds", <<s>>,
                        [bounds |-> parseBounds(s),
                         center |-> boundsCenter(parseBounds(s))])
        /\ UNCHANGED <<config, requests, runPromise, queue, pc, caught, capture,
                       pre, body, race, timer, inFlight, lastResult,
                       deviceTrace, artifacts, times, now, uiHierarchyCache,
                       device>>

CallMatchesSelector ==
    /\ call.fn = ""
    /\ \E fields \in FieldsOfNodes, selector \in Selectors :
        /\ call' = Call("matchesSelector", <<fields, selector>>,
                        matchesSelector(fields, selector))
        /\ UNCHANGED <<config, requests, runPromise, queue, pc, caught, capture,
                       pre, body, race, timer, inFlight, lastResult,
                       deviceTrace, artifacts, times, now, uiHierarchyCache,
                       device>>

CallFindAnySelectorBounds ==
    /\ call.fn = ""
    /\ \E xml \in Documents, selectors \in SelectorLists :
        /\ call' = Call("findAnySelectorBounds", <<xml, selectors>>,
                        findAnySelectorBounds(xml, selectors))
        /\ UNCHANGED <<config, requests, runPromise, queue, pc, caught, capture,
                       pre, body, race, timer, inFlight, lastResult,
                       deviceTrace, artifacts, times, now, uiHierarchyCache,
                       device>>

\* Outputs of "dumpsys window windows" and of "dumpsys activity
\* activities": up to two lines each.
WindowLines ==
    {"  mCurrentFocus=Window{1a u0 com.a/com.a.Main}",
     "  mCurrentFocus=Window{2b u0 com.b/.B}",
     "  mCurrentFocus=null",
     "  mFocusedApp=ActivityRecord{3c u0 com.c/.C t7}",
     "  mFocusedApp=null",
     "  imeInputTarget in display# 0 Window{4d u0 com.x/.X}"}
ActivityLines ==
    {"  topResumedActivity=ActivityRecord{5e u0 com.d/.D t7}",
     "  mResumedActivity: ActivityRecord{6f u0 com.e/.E t7}",
     "  mResumedActivity: null",
     "  mFocusedActivity: com.f",
     "  * Hist #0: ActivityRecord{7a u0 com.g/.G t7}"}
OutputsOf(lines) ==
    {""} \cup lines \cup {a \o "\n" \o b : a \in lines, b \in lines}

CallGetForegroundPackage ==
    /\ call.fn = ""
    /\ \E w \in OutputsOf(WindowLines), a \in OutputsOf(ActivityLines) :
        /\ call' = Call("getForegroundPackage", <<w, a>>, getForegroundPackage(w, a))
        /\ UNCHANGED <<config, requests, runPromise, queue, pc, caught, capture,
                       pre, body, race, timer, inFlight, lastResult,
                       deviceTrace, artifacts, times, now, uiHierarchyCache,
                       device>>

InitPure == config = ConfigOpen /\ Start /\ device = NoDevice

NextPure ==
    \/ CallEscapeAdbText
    \/ CallParseBounds
    \/ CallMatchesSelector
    \/ CallFindAnySelectorBounds
    \/ CallGetForegroundPackage

SpecPure == InitPure /\ [][NextPure]_vars

\* ----------------------------------------------------------------- claims

Known(k) == requests[k] \in DOMAIN config.actions
StepsOf(k) == config.actions[requests[k]].steps
Settled(k) == runPromise[k].state # "pending"
InProgress(b) == b.wait \in {"op", "sleep"}
CapturePhases == {"capture_screencap", "capture_dump", "capture_write"}

\* C1: the device operations of two actions never interleave (an operation
\* of an earlier request is never issued after one of a later request), and
\* at most one action has a step in progress at any instant.
C1_NoOverlap ==
    /\ \A i, j \in DOMAIN deviceTrace : i < j => deviceTrace[i] < deviceTrace[j]
    /\ Cardinality({k \in Jobs : InProgress(pre[k]) \/ InProgress(body[k])}) <= 1

\* C2: enqueue is possible in every state, whatever the lane is doing, and
\* gives the request its promise at once; job k+1 has not started while the
\* promise of job k is pending.
C2_StartOrder ==
    /\ Len(requests) < MaxJobs => ENABLED Enqueue
    /\ \A k \in Jobs :
        /\ runPromise[k].state \in {"pending", "fulfilled", "rejected"}
        /\ (k > 1 /\ pc[k] # "queued") => Settled(k - 1)

\* A request was admitted behind a busy lane, and started after it.
C2_Witness ==
    \E k \in Jobs :
        /\ k > 1
        /\ pc[k] \notin {"queued", "settled"}
        /\ runPromise[k - 1].state = "rejected"
        /\ InProgress(body[k - 1])

\* C3: a rejected job does not break the chain: no queue entry is ever
\* rejected, a queued job whose predecessor has settled can start, and the
\* promise of every job settles with the outcome of that job's own
\* execution (its action id, its ordinal; for a known action an execution
\* that issued device operations).
C3_ChainSurvives ==
    \A k \in Jobs :
        /\ queue[k].state # "rejected"
        /\ (pc[k] = "queued" /\ (k = 1 \/ Settled(k - 1))) => ENABLED StartJob
        /\ Settled(k) =>
            /\ runPromise[k].result.actionId = requests[k]
            /\ runPromise[k].result.startedAt = k
            /\ runPromise[k].result.status \in {"ok", "error"}
            /\ IF Known(k)
               THEN \E i \in DOMAIN deviceTrace : deviceTrace[i] = k
               ELSE runPromise[k].result.error = Err("unknown", 0)

\* A job rejected by its deadline is followed by a job that succeeded.
C3_Witness ==
    \E k \in Jobs :
        /\ k > 1
        /\ runPromise[k - 1].state = "rejected"
        /\ runPromise[k - 1].result.error.kind = "timeout"
        /\ runPromise[k].state = "fulfilled"

\* C4: once the deadline timer has fired, the action fails with the timeout
\* error, and whatever the step in progress does afterwards (succeed, fail,
\* go on) leaves the race and the action's result as they are.
C4_DeadlineWins ==
    \A k \in Jobs :
        timer[k] = "fired" =>
            /\ race[k].state = "rejected"
            /\ race[k].result.error = TimeoutErr(Engine, k)
            /\ caught[k] = TimeoutErr(Engine, k)
            /\ pc[k] \in CapturePhases \cup {"settled"}
            /\ pc[k] = "settled" =>
                runPromise[k] =
                    Rejected(ActionResult(requests[k], "error", TimeoutErr(Engine, k), k))

\* The step in progress at the deadline succeeded later; the action had
\* failed with the timeout.
C4_Witness ==
    \E k \in Jobs :
        /\ timer[k] = "fired"
        /\ body[k].wait = "done"
        /\ pc[k] = "settled"
        /\ runPromise[k].state = "rejected"
        /\ runPromise[k].result.error = TimeoutErr(Engine, k)

\* The length of the maximal leading run of ensure_emulator_ready steps.
LeadingRun(steps) ==
    CHOOSE n \in 0..Len(steps) :
        /\ \A i \in 1..n : steps[i].type = "ensure_emulator_ready"
        /\ n < Len(steps) => steps[n + 1].type # "ensure_emulator_ready"

\* C5: the leading run of ensure_emulator_ready steps is maximal and runs
\* with no deadline timer; the timer is started only once that run has
\* completed, with action.timeoutMs or else the default, and it is the
\* whole remainder that runs under it; a timeout failure is only ever one
\* of the remainder.
C5_LeadingRunOutsideDeadline ==
    \A k \in Jobs :
        Known(k) =>
            LET S == StepsOf(k)
                L == LeadingRun(S)
            IN  /\ pre[k].wait # "none" => pre[k].steps = SubSeq(S, 1, L) /\ L > 0
                /\ InProgress(pre[k]) \/ pre[k].wait = "failed" =>
                        /\ timer[k] = "unset"
                        /\ body[k].wait = "none"
                        /\ caught[k].kind # "timeout"
                /\ timer[k] # "unset" =>
                        /\ L > 0 => pre[k].wait = "done"
                        /\ body[k].steps = SubSeq(S, L + 1, Len(S))
                /\ body[k].wait # "none" => timer[k] # "unset"
                /\ caught[k].kind = "timeout" =>
                        /\ timer[k] = "fired"
                        /\ caught[k].n =
                            IF config.actions[requests[k]].timeoutMs = NoValue
                            THEN defaultTimeoutMs
                            ELSE config.actions[requests[k]].timeoutMs

\* A leading run of two steps is over, and the deadline fired on a
\* remainder that holds a later ensure_emulator_ready step.
C5_Witness ==
    \E k \in Jobs :
        /\ Known(k)
        /\ LeadingRun(StepsOf(k)) = 2
        /\ pre[k].wait = "done"
        /\ timer[k] = "fired"
        /\ Len(body[k].steps) = 2

\* C6: a retry step whose nested sequence fails on every attempt starts it
\* exactly attempts times, sleeps the delay (500 ms if none is configured)
\* attempts - 1 times, and throws the error of the last attempt.
C6_RetryExhausted ==
    \A k \in Jobs :
        requests[k] = "retry" =>
            LET st == StepsOf(k)[1]
                b == body[k]
                d == IF st.ms = NoValue THEN 500 ELSE st.ms
            IN  b.wait # "none" =>
                    /\ b.started[st.id] <= st.n
                    /\ b.delays[st.id] <= st.n - 1
                    /\ b.wait = "failed" =>
                        /\ b.started[st.id] = st.n
                        /\ b.delays[st.id] = st.n - 1
                        /\ b.slept[st.id] = (st.n - 1) * d
                        /\ b.nfail = st.n
                        /\ b.err = Err("device", st.n)

\* Two attempts failed and the retry step threw.
C6_Witness ==
    \E k \in Jobs :
        /\ requests[k] = "retry"
        /\ body[k].wait = "failed"
        /\ body[k].started["r"] = 2
        /\ caught[k] = Err("device", 2)

\* C7: a retry step whose nested sequence succeeds on attempt k returns at
\* once: attempt k is the last one started, k - 1 delays were slept, none
\* after the success, and no error of the earlier attempts is thrown.
C7_RetrySuccessShortCircuits ==
    \A k \in Jobs :
        requests[k] = "retry" =>
            LET st == StepsOf(k)[1]
                b == body[k]
            IN  b.wait = "done" =>
                    /\ b.started[st.id] = b.nfail + 1
                    /\ b.started[st.id] <= st.n
                    /\ b.delays[st.id] = b.nfail
                    /\ b.err = NoErr
                    /\ timer[k] # "fired" =>
                        runPromise[k] = Fulfilled(ActionResult("retry", "ok", NoErr, k))

\* The first attempt failed, the second succeeded, the action is ok.
C7_Witness ==
    \E k \in Jobs :
        /\ requests[k] = "retry"
        /\ body[k].wait = "done"
        /\ body[k].nfail = 1
        /\ runPromise[k].state = "fulfilled"

\* C8: a repeat step with count N runs its nested sequence N times and
\* sleeps its delay only between two iterations: N - 1 times when it
\* completes, never after the last iteration (and not at all when no
\* positive delay is configured).
C8_RepeatExactlyN ==
    \A k \in Jobs :
        requests[k] = "repeat" =>
            LET st == StepsOf(k)[1]
                b == body[k]
                d == IF st.ms = NoValue THEN 0 ELSE st.ms
            IN  b.wait # "none" =>
                    /\ b.started[st.id] <= st.n
                    /\ b.delays[st.id] <= st.n - 1
                    /\ b.delays[st.id] <= b.started[st.id]
                    /\ b.wait = "done" =>
                        /\ b.started[st.id] = st.n
                        /\ b.delays[st.id] = (IF d > 0 THEN st.n - 1 ELSE 0)
                        /\ b.slept[st.id] = (st.n - 1) * d

\* A repeat of two iterations with a delay has completed.
C8_Witness ==
    \E k \in Jobs :
        /\ requests[k] = "repeat"
        /\ body[k].wait = "done"
        /\ body[k].started["p"] = 2
        /\ body[k].slept["p"] = 50

\* C9: a failure inside an iteration of a repeat step is the failure of the
\* step: it throws that error at once, starts no further iteration and
\* sleeps no delay after it.
C9_RepeatPropagates ==
    \A k \in Jobs :
        requests[k] = "repeat" =>
            LET st == StepsOf(k)[1]
                b == body[k]
                d == IF st.ms = NoValue THEN 0 ELSE st.ms
            IN  b.nfail >= 1 =>
                    /\ b.wait = "failed"
                    /\ b.nfail = 1
                    /\ b.err = Err("device", 1)
                    /\ b.started[st.id] <= st.n
                    /\ b.delays[st.id] = (IF d > 0 THEN b.started[st.id] - 1 ELSE 0)
                    /\ timer[k] # "fired" => caught[k] = b.err

\* The first of two iterations failed.
C9_Witness ==
    \E k \in Jobs :
        /\ requests[k] = "repeat"
        /\ StepsOf(k)[1].n = 2
        /\ body[k].wait = "failed"
        /\ body[k].started["p"] = 1

\* The failure that ended the execution of job k.
OriginalFailure(k) ==
    IF timer[k] = "fired" THEN TimeoutErr(Engine, k)
    ELSE IF body[k].wait = "failed" THEN body[k].err
    ELSE IF pre[k].wait = "failed" THEN pre[k].err
    ELSE Err("mkdir", 0)

C11_UnknownActionRejected ==
    \A k \in Jobs :
        ~Known(k) =>
            /\ pc[k] \in {"queued", "settled"}
            /\ pre[k] = NoBody /\ body[k] = NoBody /\ timer[k] = "unset"
            /\ capture[k] = "none" /\ caught[k] = NoErr
            /\ \A i \in DOMAIN deviceTrace : deviceTrace[i] # k
            /\ \A x \in ArtifactFiles : <<k, x>> \notin artifacts
            /\ inFlight.startedAt # k
            /\ Settled(k) =>
                runPromise[k] =
                    Rejected(ActionResult(requests[k], "error", Err("unknown", 0), k))

\* An unknown id was requested after a known action had used the device,
\* and its promise has rejected.
C11_Witness ==
    \E k \in Jobs :
        /\ ~Known(k)
        /\ k > 1 /\ Known(k - 1)
        /\ deviceTrace # << >>
        /\ runPromise[k].state = "rejected"

\* The executions of runAction that are under way, and those that are over.
Executing == {k \in Jobs : pc[k] \notin {"queued", "settled"}}
Finished == {k \in Jobs : Known(k) /\ pc[k] = "settled"}

\* C12: lastResult is the result of the execution that finished last (none
\* before the first has finished), whether it succeeded or failed; inFlight
\* names the action whose execution is under way, from its start to its end
\* on every path, and is none when none is.
C12_LastResultAndInFlight ==
    /\ Cardinality(Executing) <= 1
    /\ \A k \in Executing :
            inFlight = [actionId |-> requests[k], startedAt |-> k]
    /\ Executing = {} => inFlight = NoInFlight
    /\ Finished = {} => lastResult = NoResult
    /\ \A k \in Finished :
            (\A j \in Finished : j <= k) =>
                /\ lastResult = runPromise[k].result
                /\ lastResult.actionId = requests[k]
                /\ lastResult.startedAt = k
                /\ lastResult.status =
                        (IF runPromise[k].state = "fulfilled" THEN "ok" ELSE "error")

\* A failed execution was followed by a successful one: lastResult is the
\* second result and nothing is in flight.
C12_Witness ==
    \E k \in Jobs :
        /\ k > 1
        /\ runPromise[k - 1].state = "rejected" /\ Known(k - 1)
        /\ runPromise[k].state = "fulfilled"
        /\ lastResult = runPromise[k].result
        /\ inFlight = NoInFlight

\* needle occurs in haystack: some stretch of haystack is needle.
Occurs(needle, haystack) ==
    \E a \in 1..Len(haystack), z \in 1..Len(haystack) :
        a <= z /\ SubSeq(haystack, a, z) = needle

\* What field f of a selector, with value v, asks of an element.
FieldSatisfied(el, f, v) ==
    CASE f = "text" -> el.text = v
      [] f = "textContains" -> Occurs(v, el.text)
      [] f = "resourceId" -> el.resourceId = v
      [] f = "resourceIdContains" -> Occurs(v, el.resourceId)
      [] f = "contentDesc" -> el.contentDesc = v
      [] f = "contentDescContains" -> Occurs(v, el.contentDesc)

Satisfies(el, selector) ==
    \A f \in DOMAIN selector : FieldSatisfied(el, f, selector[f])

\* The elements of a document by their paths (child numbers from the
\* root), and document order on paths: an element before its descendants,
\* an earlier sibling's subtree before a later sibling's.
RECURSIVE PathsOf(_)
PathsOf(el) ==
    {<< >>} \cup UNION {{<<i>> \o p : p \in PathsOf(el.node[i])} : i \in DOMAIN el.node}
RECURSIVE ElementAt(_, _)
ElementAt(el, p) ==
    IF p = << >> THEN el ELSE ElementAt(el.node[Head(p)], Tail(p))
DocBefore(p, q) ==
    \/ Len(p) < Len(q) /\ SubSeq(q, 1, Len(p)) = p
    \/ \E i \in 1..Len(p) :
        /\ i <= Len(q)
        /\ p[i] < q[i]
        /\ \A j \in 1..(i - 1) : p[j] = q[j]

\* The elements findAnySelectorBounds may answer with: they carry a
\* rectangle and satisfy a selector of the list.
Candidates(xml, selectors) ==
    {p \in PathsOf(xml) :
        /\ ElementAt(xml, p).bounds # ""
        /\ \E j \in DOMAIN selectors : Satisfies(ElementAt(xml, p), selectors[j])}

\* C16: findAnySelectorBounds answers with the first element in document
\* order that carries a rectangle and satisfies a selector of the list,
\* paired with the first selector of the list that it satisfies and with its
\* rectangle; it answers null exactly when there is no such element.
C16_MatchFirst ==
    call.fn = "findAnySelectorBounds" =>
        LET xml == call.in[1]
            selectors == call.in[2]
            cand == Candidates(xml, selectors)
        IN  /\ call.out.kind = "null" <=> cand = {}
            /\ cand # {} =>
                LET p == CHOOSE p \in cand : \A q \in cand : q = p \/ DocBefore(p, q)
                    el == ElementAt(xml, p)
                    j == CHOOSE j \in DOMAIN selectors :
                            /\ Satisfies(el, selectors[j])
                            /\ \A i \in 1..(j - 1) : ~Satisfies(el, selectors[i])
                IN  /\ call.out.kind = "match"
                    /\ call.out.selector = selectors[j]
                    /\ RectString(call.out.bounds.left, call.out.bounds.top,
                                  call.out.bounds.right, call.out.bounds.bottom)
                            = el.bounds

\* The answer is a nested element paired with the second selector, while a
\* later element satisfies the first selector, and an earlier element that
\* satisfies a selector carries no rectangle.
C16_Witness ==
    /\ call.fn = "findAnySelectorBounds"
    /\ call.out.kind = "match"
    /\ Len(call.in[2]) = 2
    /\ call.out.selector = call.in[2][2]
    /\ call.in[2][1] # call.in[2][2]
    /\ <<1, 1>> \in Candidates(call.in[1], call.in[2])
    /\ <<1>> \notin Candidates(call.in[1], call.in[2])
    /\ Satisfies(ElementAt(call.in[1], <<1>>), call.in[2][2])
    /\ \E q \in Candidates(call.in[1], call.in[2]) :
            Satisfies(ElementAt(call.in[1], q), call.in[2][1])

\* C17: matchesSelector holds exactly when every field present in the
\* selector is satisfied by the element: equality for text, resourceId and
\* contentDesc, occurrence as a substring for the Contains fields; a field
\* that is absent asks nothing.
C17_SelectorConjunction ==
    call.fn = "matchesSelector" =>
        call.out = Satisfies(call.in[1], call.in[2])

\* A selector with a satisfied field and an unsatisfied field was rejected.
C17_Witness ==
    /\ call.fn = "matchesSelector"
    /\ call.out = FALSE
    /\ \E f \in DOMAIN call.in[2] : FieldSatisfied(call.in[1], f, call.in[2][f])
    /\ \E f \in DOMAIN call.in[2] : ~FieldSatisfied(call.in[1], f, call.in[2][f])
    /\ "textContains" \in DOMAIN call.in[2]
    /\ call.in[1].text # ""

\* The characters escapeAdbText escapes.
EscapedCharacters == {" ", "\\", "&", "(", ")", "<", ">", "?", "!"}

\* C19: two different texts never have the same escaped string, and every
\* character to escape is escaped once (the escaped string is longer than
\* the text by the number of such characters).
C19_EscapeExact ==
    call.fn = "escapeAdbText" =>
        /\ call.in[1] # call.in[2] => call.out[1] # call.out[2]
        /\ Len(call.out[1]) =
                Len(call.in[1])
                + Cardinality({i \in 1..Len(call.in[1]) :
                                SubSeq(call.in[1], i, i) \in EscapedCharacters})

\* C20: "[l,t][r,b]" parses to its four numbers, any other string is a
\* format error, and the centre is the mean of the opposite sides with a
\* half rounded up.
C20_ParseBounds ==
    call.fn = "parseBounds" =>
        LET s == call.in[1]
            bounds == call.out.bounds
            center == call.out.center
        IN  IF s \in RectStrings
            THEN /\ bounds.ok
                 /\ RectString(bounds.left, bounds.top, bounds.right, bounds.bottom) = s
                 /\ 2 * center.x \in {bounds.left + bounds.right,
                                      bounds.left + bounds.right + 1}
                 /\ 2 * center.y \in {bounds.top + bounds.bottom,
                                      bounds.top + bounds.bottom + 1}
                 /\ s = "[12,34][56,78]" => center = [x |-> 34, y |-> 56]
            ELSE ~bounds.ok

\* The files captureFailureArtifacts wrote for job k.
ArtifactsOf(k) == {x \in ArtifactFiles : <<k, x>> \in artifacts}

\* Job k ran to its end against a device that answered every operation and
\* a file system that made the artifacts directory.
RanUndisturbed(k) ==
    /\ pc[k] = "settled"
    /\ device.faults = 0
    /\ caught[k] # Err("mkdir", 0)

MissingTimeoutMs == ScenarioMissing.config.actions["run"].steps[1].ms

\* C14: an action whose wait_for_selector step has timeout T and whose
\* selector the device never shows ends with status error and the
\* selector-not-found error, no sooner than T after its start;
\* captureFailureArtifacts ran once, and when nothing in it failed the
\* screenshot and the dump of that one capture are on disk.
C14_EndToEndFailure ==
    \A k \in Jobs :
        (config = ScenarioMissing.config /\ RanUndisturbed(k)) =>
            /\ runPromise[k].state = "rejected"
            /\ runPromise[k].result.status = "error"
            /\ runPromise[k].result.error = Err("selector_not_found", 0)
            /\ runPromise[k].result.durationMs >= MissingTimeoutMs
            /\ times[k].captures = 1
            /\ capture[k] = "ok" <=> ArtifactsOf(k) = ArtifactFiles

\* The scenario ran to its end and the pair was written.
C14_Witness ==
    /\ config = ScenarioMissing.config
    /\ Len(requests) = 1 /\ RanUndisturbed(1)
    /\ lastResult.error = Err("selector_not_found", 0)
    /\ capture[1] = "ok"
    /\ ArtifactsOf(1) = ArtifactFiles

\* The key events of the wake sequence.
WakeKeys == {224, 82, 3}
WakeCalls ==
    {i \in 1..Len(device.calls) :
        device.calls[i][1] = "inputKeyevent" /\ device.calls[i][2] \in WakeKeys}

\* The body of job k is over its first step and awaits the operation of
\* its second.
AtSecondStep(k) ==
    /\ body[k].wait = "op"
    /\ Len(body[k].stack) = 1
    /\ Top(body[k]).i = 2

\* C15: wake_and_unlock run against a device whose screen is on sends no
\* key event and changes nothing: the device has recorded no call and the
\* cache is as it was when the next step starts.
C15_WakeIdempotent ==
    config = ScenarioAwake.config =>
        /\ WakeCalls = {}
        /\ \A k \in Jobs :
            AtSecondStep(k) =>
                /\ device.calls = << >>
                /\ device.screenOn
                /\ body[k].op = "inputKeyevent" /\ body[k].arg = <<4>>
                /\ device.faults = 0 => uiHierarchyCache.xml.gen = 0

\* wake_and_unlock found the screen on and the next step has started.
C15_Witness ==
    /\ config = ScenarioAwake.config
    /\ Len(requests) = 1 /\ AtSecondStep(1)
    /\ device.screenOn /\ device.calls = << >>

\* C18: no step is ever handed a snapshot that was dumped before a
\* screen-changing operation (a tap, a key event, a text input, a launch)
\* the device has executed since.
C18_NoStaleSnapshot == \A k \in Jobs : ~body[k].stale

\* The bodies that are inside a wait loop (waitForSelector or
\* waitForAnySelector), and the time the loop was entered.
Waiting == {k \in Jobs : body[k].stack # << >> /\ Top(body[k]).kind = "wait"}
WaitTimeoutOf(f) == IF f.step.ms = NoValue THEN defaultTimeoutMs ELSE f.step.ms
WaitStart(k) == Top(body[k]).deadline - WaitTimeoutOf(Top(body[k]))

\* C21: in the wait loops (wait_for_text, wait_for_selector,
\* wait_for_any_selector, tap_selector) no poll is served from the cache:
\* a poll that awaits its snapshot awaits a dump of the device, and the
\* snapshot a poll has looked at was asked for after the step began.
C21_PollsDumpAfresh ==
    \A k \in Waiting :
        LET f == Top(body[k]) IN
        /\ f.at # "dumpCached"
        /\ (body[k].wait = "op" /\ f.at = "dump") =>
                /\ body[k].op = "dumpUiHierarchy"
                /\ f.stamp >= WaitStart(k)
        /\ (f.at \in {"sleep", "watchdogTap"} /\ pc[k] = "main"
                /\ uiHierarchyCache # NoCache) =>
                uiHierarchyCache.timestamp >= WaitStart(k)

\* A wait loop polls while the dump of the pass at the start of the action
\* would still have been fresh.
C21_Witness ==
    \E k \in Waiting :
        /\ body[k].wait = "op" /\ Top(body[k]).at = "dump"
        /\ device.faults = 0
        /\ now - times[k].stamp < UI_CACHE_TTL_MS

\* C22: an exception raised during a poll of a wait loop (the dump fails,
\* the snapshot has a malformed rectangle, the watchdog tap fails) does
\* not end the wait: it is remembered and the loop sleeps and polls again.
\* The loop is left by an exception only once the deadline is reached, and
\* then by the remembered exception if there is one, else by the
\* not-found error; a poll that matches ends the step with success
\* whatever was remembered.
C22_PollErrorsRemembered ==
    [][\A k \in Jobs :
        (k \in Waiting /\ body'[k] # body[k]) =>
            LET f == Top(body[k]) IN
            /\ body'[k].wait = "failed" =>
                    /\ now >= f.deadline
                    /\ body'[k].err = IF f.lastError # NoErr THEN f.lastError
                                      ELSE notFoundError(f.caller)
            /\ device'.faults > device.faults =>
                    /\ body'[k].wait = "sleep"
                    /\ Top(body'[k]).kind = "wait"
                    /\ Top(body'[k]).lastError = deviceError(body[k])
                    /\ body'[k].until = now + stepPollMs
            /\ now < f.deadline => body'[k].wait # "failed"]_vars

\* A dump failed during a poll of tap_selector, a later poll matched, and
\* the action succeeded.
C22_Witness ==
    /\ config = ScenarioOpen.config
    /\ Len(requests) = 1
    /\ runPromise[1].state = "fulfilled"
    /\ body[1].nfail = 1

\* C23: after a poll in which the watchdog dismissed the dialog, the wait
\* loop pauses for less than the poll interval it sleeps after an ordinary
\* non-match.
C23_ShortPauseAfterDismissal ==
    \A k \in Waiting :
        (body[k].wait = "sleep" /\ Top(body[k]).at = "pause") =>
            body[k].ms < stepPollMs

\* C24: the check-and-dismiss pass has run once when the action starts and
\* once more before each step that has begun: while the i-th step of the
\* remainder is in progress, 1 + i passes have been started.
C24_PassBeforeEachStep ==
    \A k \in Jobs :
        InProgress(body[k]) => times[k].passes >= 1 + body[k].stack[1].i

\* C25: the proactive pass is best-effort.  When its dump or its tap fails
\* the failure is swallowed: no error reaches runAction's catch block and,
\* the cache and the device apart, the job is left exactly where a pass
\* that found no dialog leaves it, at the creation of the artifacts
\* directory.
C25_PassBestEffort ==
    [][\A k \in Jobs :
        (pc[k] \in {"dismiss_dump", "dismiss_tap"} /\ pc'[k] # pc[k]) =>
            /\ pc'[k] \in {"dismiss_tap", "mkdir"}
            /\ caught'[k] = NoErr
            /\ capture'[k] = "none"
            /\ runPromise'[k].state = "pending"
            /\ device'.faults > device.faults =>
                    [Engine EXCEPT !.uiHierarchyCache = NoCache, !.device = NoDevice]' =
                    [dismissDumped(Engine, k, "clean")
                        EXCEPT !.uiHierarchyCache = NoCache, !.device = NoDevice]]_vars

\* The dump of the pass failed, and the action went on and ended ok.
C25_Witness ==
    /\ config = ScenarioOpen.config
    /\ Len(requests) = 1
    /\ runPromise[1].state = "fulfilled"
    /\ device.faults = 1
    /\ body[1].nfail = 0

\* A step of job k in which its remainder comes to await op.
ComesToAwait(k, op) ==
    /\ body'[k].wait = "op" /\ body'[k].op = op
    /\ body'[k] # body[k]

\* C26: getUiHierarchy answers from the cache only when an entry exists
\* whose age is strictly below UI_CACHE_TTL_MS, and then with the xml of
\* that entry; otherwise it asks the device for a dump, and the dump
\* replaces the entry, stamped with the time it was asked for.
C26_CacheWithinTtl ==
    [][\A k \in Jobs :
        /\ ComesToAwait(k, "cachedUiHierarchy") =>
                /\ uiHierarchyCache' # NoCache
                /\ now' - uiHierarchyCache'.timestamp < UI_CACHE_TTL_MS
                /\ body'[k].arg = <<uiHierarchyCache'.xml>>
        /\ ComesToAwait(k, "dumpUiHierarchy") =>
                \/ uiHierarchyCache' = NoCache
                \/ now' - uiHierarchyCache'.timestamp >= UI_CACHE_TTL_MS
        /\ ( /\ body[k].wait = "op" /\ body[k].op = "dumpUiHierarchy"
             /\ body'[k] # body[k]
             /\ device'.faults = device.faults
             /\ body'[k].wait \in {"op", "sleep"}
             /\ body'[k].op # "dumpUiHierarchy"
             /\ Len(body'[k].stack) = Len(body[k].stack) ) =>
                uiHierarchyCache' =
                    [xml |-> deviceValue(device, "dumpUiHierarchy"),
                     timestamp |-> Top(body[k]).stamp]]_vars

\* An entry whose age is exactly the TTL is in the cache when getUiHierarchy
\* is called, and the device is asked for a dump.
C26_Witness ==
    \E k \in Jobs :
        /\ body[k].wait = "op" /\ body[k].op = "dumpUiHierarchy"
        /\ uiHierarchyCache # NoCache
        /\ now - uiHierarchyCache.timestamp = UI_CACHE_TTL_MS
        /\ Top(body[k]).stamp = now

\* The remainder of job k is inside ensure_app_open, suspended on a device
\* operation that this step answers without a fault.
EnsureAnswered(k) ==
    /\ body[k].wait = "op"
    /\ Top(body[k]).kind = "ensure_app_open"
    /\ body'[k] # body[k]
    /\ device'.faults = device.faults

\* The step of job k returns in this step: its call is no longer the one on
\* top of the stack.
EnsureReturns(k) ==
    \/ body'[k].wait \notin {"op", "sleep"}
    \/ Top(body'[k]).kind # "ensure_app_open"
    \/ Top(body'[k]).step.id # Top(body[k]).step.id

\* startApp(package, activity) is what the step of job k awaits next.
EnsureLaunches(k, at) ==
    /\ body'[k].wait = "op" /\ body'[k].op = "startApp"
    /\ body'[k].arg = <<Top(body[k]).step.package, Top(body[k]).step.activity>>
    /\ Top(body'[k]).at = at
    /\ Top(body'[k]).step = Top(body[k]).step
    /\ device'.calls = device.calls

\* The device has executed the launch the step of job k asked for, once,
\* and the cache is empty.
EnsureLaunched(k) ==
    /\ device'.calls =
            Append(device.calls, <<"startApp", Top(body[k]).step.package,
                                   Top(body[k]).step.activity>>)
    /\ uiHierarchyCache' = NoCache

\* The pause at the end of the step of job k: with a positive delayMs of
\* which something is left since the step started, a sleep of what is
\* left; otherwise none.
EnsurePauses(k, delayMs) ==
    LET remainingMs == delayMs - (now - Top(body[k]).stepStart) IN
    IF delayMs # NoValue /\ delayMs > 0 /\ remainingMs > 0
    THEN /\ body'[k].wait = "sleep"
         /\ Top(body'[k]).kind = "ensure_app_open"
         /\ Top(body'[k]).step = Top(body[k]).step
         /\ body'[k].ms = remainingMs
         /\ body'[k].until = Top(body[k]).stepStart + delayMs
    ELSE EnsureReturns(k)

\* C27: ensure_app_open with alreadyOpenSelector returns without launching
\* and without sleeping when the selector matches the snapshot; otherwise
\* it launches the package once, empties the cache and, with a
\* delayMsIfLaunch, sleeps only max(0, delayMsIfLaunch - time since the
\* step started).
C27_EnsureOpenBySelector ==
    [][\A k \in Jobs :
        (EnsureAnswered(k) /\ Top(body[k]).step.alreadyOpenSelector # NoSelector) =>
            LET f == Top(body[k]) IN
            IF f.at \in {"visible", "visibleCached"}
            THEN IF findSelectorBounds(device.doc, f.step.alreadyOpenSelector).kind
                        = "match"
                 THEN EnsureReturns(k) /\ device'.calls = device.calls
                 ELSE EnsureLaunches(k, "launchSelector")
            ELSE /\ f.at = "launchSelector"
                 /\ EnsureLaunched(k)
                 /\ EnsurePauses(k, f.step.delayMsIfLaunch)]_vars

\* The selector did not match, the package was launched, and part of
\* delayMsIfLaunch had gone by when the launch returned: the step sleeps
\* what is left.
C27_Witness ==
    \E k \in Jobs :
        /\ body[k].wait = "sleep"
        /\ Top(body[k]).kind = "ensure_app_open"
        /\ Top(body[k]).step.alreadyOpenSelector # NoSelector
        /\ body[k].ms > 0
        /\ body[k].ms < Top(body[k]).step.delayMsIfLaunch

\* C28: ensure_app_open without alreadyOpenSelector does not launch when
\* the foreground package is the target and then pauses by delayMsIfOpen;
\* when the foreground is another package or none, it launches the package
\* once, empties the cache and pauses by delayMsIfLaunch; either pause is
\* what is left of the delay since the step started.
C28_EnsureOpenByPackage ==
    [][\A k \in Jobs :
        (EnsureAnswered(k) /\ Top(body[k]).step.alreadyOpenSelector = NoSelector) =>
            LET f == Top(body[k]) IN
            IF f.at = "foreground"
            THEN IF device.foreground = f.step.package
                 THEN /\ device'.calls = device.calls
                      /\ EnsurePauses(k, f.step.delayMsIfOpen)
                 ELSE EnsureLaunches(k, "launchPackage")
            ELSE /\ f.at = "launchPackage"
                 /\ EnsureLaunched(k)
                 /\ EnsurePauses(k, f.step.delayMsIfLaunch)]_vars

\* No foreground package was resolved, the package was launched, and the
\* step sleeps what is left of delayMsIfLaunch.
C28_Witness ==
    \E k \in Jobs :
        /\ config = ScenarioLaunch.config
        /\ body[k].wait = "sleep"
        /\ Top(body[k]).kind = "ensure_app_open"
        /\ Top(body[k]).step.alreadyOpenSelector = NoSelector
        /\ device.calls = <<<<"startApp", "com.app", Top(body[k]).step.activity>>>>
        /\ body[k].ms > 0
        /\ body[k].ms < Top(body[k]).step.delayMsIfLaunch

\* The key events the device has executed, in order.
IsKeyEvent(c) == c[1] = "inputKeyevent"
KeyEvents(d) == SelectSeq(d.calls, IsKeyEvent)
WakeSequence ==
    <<<<"inputKeyevent", 224>>, <<"inputKeyevent", 82>>, <<"inputKeyevent", 3>>>>

\* The remainder of job k is inside wake_and_unlock at the await named at,
\* and this step answers it without a fault.
WakeAnswered(k, at) ==
    /\ body[k].wait = "op"
    /\ Top(body[k]).kind = "wake_and_unlock"
    /\ Top(body[k]).at = at
    /\ body'[k] # body[k]
    /\ device'.faults = device.faults

\* The device executes key event done, if any, and wake_and_unlock awaits
\* key event next.
WakeSends(k, done, next) ==
    /\ device'.calls = device.calls \o done
    /\ body'[k].wait = "op" /\ body'[k].op = "inputKeyevent"
    /\ body'[k].arg = <<next>>
    /\ Top(body'[k]).kind = "wake_and_unlock"

\* C29: wake_and_unlock that finds the screen off sends key events 224, 82
\* and 3, in this order, each after the device has completed the one
\* before, and no other key event.
C29_WakeSequence ==
    [][/\ \A k \in Jobs :
            /\ (WakeAnswered(k, "isScreenOn") /\ ~device.screenOn) =>
                    WakeSends(k, << >>, 224)
            /\ WakeAnswered(k, "wake") => WakeSends(k, <<WakeSequence[1]>>, 82)
            /\ WakeAnswered(k, "unlock") => WakeSends(k, <<WakeSequence[2]>>, 3)
            /\ WakeAnswered(k, "home") =>
                    /\ device'.calls = Append(device.calls, WakeSequence[3])
                    /\ ~(body'[k].wait = "op" /\ body'[k].op = "inputKeyevent")
       /\ config = ScenarioOpen.config =>
            \E n \in 0..3 : KeyEvents(device') = SubSeq(WakeSequence, 1, n)]_vars

\* The screen was off and the three key events have been executed.
C29_Witness ==
    /\ config = ScenarioOpen.config
    /\ KeyEvents(device) = WakeSequence
    /\ device.screenOn

\* C30: the deadline timer is cancelled as soon as the raced body settles,
\* by resolving or by rejecting: outside the withTimeout call, and once the
\* body or the race has settled, no timer is pending.
C30_TimerCleared ==
    \A k \in Jobs :
        /\ pc[k] # "main" => timer[k] # "armed"
        /\ body[k].wait \in {"done", "failed"} => timer[k] # "armed"
        /\ race[k].state # "pending" => timer[k] # "armed"

\* One body resolved and another rejected before their deadlines, and both
\* timers were cancelled.
C30_Witness ==
    \E j, k \in Jobs :
        /\ timer[j] = "cleared" /\ body[j].wait = "done"
        /\ timer[k] = "cleared" /\ body[k].wait = "failed"

\* The actions whose steps hold a retry step.
RetryActions == {"retry", "nested", "retryrepeat"}

\* C31: the error of a leaf step travels unchanged through every enclosing
\* step list and composite: a failure is swallowed only inside a retry
\* step, and when the remainder rejects it rejects with the error of the
\* last leaf that failed; unless the deadline came first, the ActionError
\* then carries that error, status error and the id of the action.
C31_LeafErrorUnchanged ==
    \A k \in Jobs :
        Known(k) =>
            LET b == body[k] IN
            /\ (b.nfail >= 1 /\ requests[k] \notin RetryActions) => b.wait = "failed"
            /\ b.wait = "failed" =>
                /\ b.nfail >= 1
                /\ b.err = Err("device", b.nfail)
                /\ timer[k] # "fired" => caught[k] = b.err
                /\ (timer[k] # "fired" /\ Settled(k)) =>
                    /\ runPromise[k] =
                        Rejected(ActionResult(requests[k], "error",
                                              Err("device", b.nfail), k))
                    /\ lastResult = runPromise[k].result

\* A leaf failed inside a repeat inside the last attempt of a retry, and
\* the action was rejected with its error.
C31_Witness ==
    \E k \in Jobs :
        /\ requests[k] = "retryrepeat"
        /\ body[k].wait = "failed"
        /\ body[k].nfail = 2
        /\ runPromise[k].state = "rejected"
        /\ runPromise[k].result.error = Err("device", 2)

\* The sources of the foreground package in their order: the output they
\* are read from (1: windows, 2: activities) and the key of their lines.
ForegroundSources ==
    <<[out |-> 1, key |-> "mCurrentFocus"], [out |-> 1, key |-> "mFocusedApp"],
      [out |-> 2, key |-> "topResumedActivity"],
      [out |-> 2, key |-> "mResumedActivity"],
      [out |-> 2, key |-> "mFocusedActivity"]>>

\* The lines of a source that match: they hold the key and a package name.
MatchingLines(lines, key) ==
    {n \in 1..Len(lines) :
        includes(lines[n], key) /\ extractPackageName(lines[n]) # NoPackage}

\* What a source yields: the package of its last matching line, if any.
YieldOf(lines, key) ==
    IF MatchingLines(lines, key) = {} THEN NoPackage
    ELSE extractPackageName(lines[lastOf(MatchingLines(lines, key))])

YieldOfSource(outputs, i) ==
    YieldOf(splitLines(outputs[ForegroundSources[i].out]),
            ForegroundSources[i].key)

\* C32: getForegroundPackage returns what the first source that yields
\* something yields, in the order current focus, focused app, top resumed
\* activity, resumed activity, focused activity, each source yielding the
\* package of its last matching line; it returns none only when no source
\* yields anything, and it asks for the activities only when neither
\* source of the windows yields anything.
C32_ForegroundOrder ==
    call.fn = "getForegroundPackage" =>
        LET yielding == {i \in 1..5 : YieldOfSource(call.in, i) # NoPackage} IN
        /\ call.out.package =
                IF yielding = {} THEN NoPackage
                ELSE YieldOfSource(call.in, firstOf(yielding))
        /\ call.out.shells = IF yielding \cap {1, 2} # {} THEN 1 ELSE 2

\* The current focus is named by two lines and the focused app by none:
\* the package of the later line is returned.
C32_Witness ==
    /\ call.fn = "getForegroundPackage"
    /\ call.in[1] = "  mCurrentFocus=Window{1a u0 com.a/com.a.Main}" \o "\n"
                    \o "  mCurrentFocus=Window{2b u0 com.b/.B}"
    /\ call.out = Resolved("com.b", 1)

\* C33: once the promise of an action has settled, the steps of that
\* action do nothing more: the promise of its remaining steps never moves
\* again.
C33_NoStepAfterSettled ==
    [][\A k \in Jobs : Settled(k) => body'[k] = body[k]]_vars

\* C34: the snapshot captureFailureArtifacts gets after it has emptied the
\* cache was asked for after the failure: when the capture of an action
\* that ran into its deadline is answered from the cache, the entry is
\* not older than the deadline.
C34_CaptureDumpAfterFailure ==
    [][\A k \in Jobs :
        (pc[k] = "capture_screencap" /\ pc'[k] = "capture_write"
            /\ timer[k] = "fired") =>
            uiHierarchyCache'.timestamp >= times[k].deadline]_vars

\* C35: if every device operation, file operation, timer and promise
\* reaction that is pending eventually completes, every request eventually
\* settles, whatever became of the requests before it, and inFlight is
\* none again and again (for good once the queue has drained).
C35_EveryRequestSettles ==
    /\ \A k \in 1..MaxJobs : (Len(requests) >= k) ~> (Len(requests) >= k /\ Settled(k))
    /\ []<>(inFlight = NoInFlight)
    /\ []((\A k \in Jobs : Settled(k)) => inFlight = NoInFlight)

\* The queue has drained: the first request was rejected, the one behind
\* it settled, and nothing is in flight.
C35_Witness ==
    /\ Len(requests) = MaxJobs
    /\ \A k \in Jobs : Settled(k)
    /\ runPromise[1].state = "rejected"
    /\ Known(MaxJobs)
    /\ inFlight = NoInFlight

\* C36: getState answers in every state and changes nothing, and what it
\* returns never shows in inFlight an execution whose result is already
\* in lastResult: the result is stored and inFlight is cleared in one step.
C36_StateConsistent ==
    /\ getState(Engine) = [inFlight |-> inFlight, lastResult |-> lastResult]
    /\ getState(Engine).inFlight # NoInFlight =>
            getState(Engine).lastResult.startedAt # getState(Engine).inFlight.startedAt

\* The second execution is in flight while lastResult holds the result of
\* the first.
C36_Witness ==
    /\ getState(Engine).inFlight.startedAt = 2
    /\ getState(Engine).lastResult.startedAt = 1
    /\ getState(Engine).lastResult.status = "ok"

\* C37: the step that serves a request for an unknown action id leaves the
\* state of the engine as it was: inFlight, lastResult and the snapshot
\* cache keep their values, nothing is sent to the device and nothing is
\* written to the artifacts directory.
C37_UnknownLeavesState ==
    [][\A k \in Jobs :
        (~Known(k) /\ pc[k] = "queued" /\ pc'[k] = "settled") =>
            /\ inFlight' = inFlight
            /\ lastResult' = lastResult
            /\ uiHierarchyCache' = uiHierarchyCache
            /\ deviceTrace' = deviceTrace
            /\ artifacts' = artifacts]_vars

\* An unknown id was served after a known action had finished: lastResult
\* is still the result of that action and nothing is in flight.
C37_Witness ==
    \E k \in Jobs :
        /\ ~Known(k) /\ Settled(k)
        /\ k > 1 /\ Known(k - 1)
        /\ lastResult.startedAt = k - 1
        /\ lastResult.actionId = requests[k - 1]
        /\ inFlight = NoInFlight

\* The remainder of job k is inside wake_and_unlock, at one of its awaits.
InWake(k) == body[k].wait = "op" /\ Top(body[k]).kind = "wake_and_unlock"

OuterStep(id) == config.actions[id].steps[1]
InnerStep(id) == OuterStep(id).steps[1]

\* The calls of runSteps composite step id has made so far.
StartedOf(b, id) == IF id \in DOMAIN b.started THEN b.started[id] ELSE 0

\* The iteration the innermost repeat call of b is in (0: none is open).
RepeatIteration(b) ==
    LET open == {j \in DOMAIN b.stack : b.stack[j].kind = "repeat"} IN
    IF open = {} THEN 0 ELSE b.stack[lastOf(open)].i

\* C39: composite steps nest multiplicatively and start over.  A retry of
\* N attempts around a retry of M attempts invokes the leaf N * M times
\* when the leaf always fails, the inner retry starting at attempt 1 in
\* each attempt of the outer one, and stops at the first invocation that
\* succeeds; a retry around a repeat starts the repeat at iteration 1 in
\* each attempt, and succeeds only after an attempt that ran all its
\* iterations.
C39_CompositesNest ==
    [][\A k \in Jobs :
        /\ requests[k] = "nested" =>
            LET b == body'[k]
                N == OuterStep("nested").n
                M == InnerStep("nested").n IN
            /\ StartedOf(b, "q") <= N * M /\ StartedOf(b, "r") <= N
            /\ b.nfail <= StartedOf(b, "q")
            /\ b.wait = "failed" =>
                /\ b.nfail = N * M
                /\ StartedOf(b, "q") = N * M
                /\ StartedOf(b, "r") = N
            /\ b.wait = "done" => StartedOf(b, "q") = b.nfail + 1
            /\ StartedOf(b, "r") > StartedOf(body[k], "r") =>
                StartedOf(b, "q") = (StartedOf(b, "r") - 1) * M + 1
        /\ requests[k] = "retryrepeat" =>
            LET b == body'[k]
                C == InnerStep("retryrepeat").n IN
            /\ StartedOf(b, "r") > StartedOf(body[k], "r") =>
                /\ RepeatIteration(b) = 1
                /\ StartedOf(b, "p") = StartedOf(body[k], "p") + 1
            /\ (b.wait = "done" /\ body[k].wait # "done") =>
                /\ RepeatIteration(body[k]) = C
                /\ StartedOf(b, "p") - b.nfail >= C]_vars

\* Two attempts around two attempts, the leaf failed each time: it was
\* invoked four times and the action failed with the error of the fourth.
C39_Witness ==
    \E k \in Jobs :
        /\ requests[k] = "nested"
        /\ OuterStep("nested").n = 2 /\ InnerStep("nested").n = 2
        /\ body[k].wait = "failed"
        /\ body[k].started["q"] = 4
        /\ body[k].err = Err("device", 4)

\* The elements of doc that show one of the 'not responding' texts, and
\* those that are a Wait button.
RespondingTexts == {dialogSelectors[j].textContains : j \in DOMAIN dialogSelectors}
WaitTexts == {waitButtonSelectors[j].text : j \in DOMAIN waitButtonSelectors}
DialogElements(doc) ==
    {i \in DOMAIN collectNodes(doc) :
        \E t \in RespondingTexts : includes(collectNodes(doc)[i].text, t)}
WaitElements(doc) ==
    {i \in DOMAIN collectNodes(doc) : collectNodes(doc)[i].text \in WaitTexts}
BothShown(doc) == DialogElements(doc) # {} /\ WaitElements(doc) # {}

\* The tap at the centre of the first Wait button of doc, as the device
\* records it.
WaitTap(doc) ==
    LET bounds == parseBounds(collectNodes(doc)[firstOf(WaitElements(doc))].bounds) IN
    <<"inputTap", (bounds.left + bounds.right) \div 2,
      (bounds.top + bounds.bottom) \div 2>>

\* The remainder of job k is inside a wait, at the await named by ats, the
\* selectors it waits for are not on the screen, and this step answers it
\* without a fault.
WatchdogAsked(k, ats) ==
    /\ body[k].wait = "op"
    /\ Top(body[k]).kind = "wait"
    /\ Top(body[k]).at \in ats
    /\ body'[k] # body[k]
    /\ device'.faults = device.faults
    /\ findAnySelectorBounds(device.doc, Top(body[k]).selectors).kind = "null"

\* C40: the watchdog taps only when one and the same dump shows a 'not
\* responding' text and a Wait button: it then taps the centre of the Wait
\* button, once, and empties the snapshot cache; when the text is absent,
\* or present without a Wait button, it taps nothing and leaves the cache
\* holding the dump.  So in the pass of runAction and in the wait loops.
C40_WatchdogTapsOnlyOnBoth ==
    [][\A k \in Jobs :
        /\ (pc[k] = "dismiss_dump" /\ pc'[k] # pc[k]
                /\ device'.faults = device.faults) =>
            /\ pc'[k] = "dismiss_tap" <=> BothShown(device.doc)
            /\ device'.calls = device.calls
            /\ uiHierarchyCache'.xml.doc = device.doc
        /\ (pc[k] = "dismiss_tap" /\ pc'[k] # pc[k]
                /\ device'.faults = device.faults) =>
            /\ device'.calls = Append(device.calls, WaitTap(device.doc))
            /\ uiHierarchyCache' = NoCache
            /\ pc'[k] = "mkdir"
        /\ WatchdogAsked(k, {"dump", "dumpCached"}) =>
            /\ device'.calls = device.calls
            /\ uiHierarchyCache'.xml.doc = device.doc
            /\ IF BothShown(device.doc)
               THEN /\ body'[k].wait = "op" /\ body'[k].op = "inputTap"
                    /\ <<"inputTap">> \o body'[k].arg = WaitTap(device.doc)
                    /\ Top(body'[k]).at = "watchdogTap"
               ELSE /\ body'[k].wait = "sleep"
                    /\ Top(body'[k]).at = "sleep"
        /\ (body[k].wait = "op" /\ Top(body[k]).kind = "wait"
                /\ Top(body[k]).at = "watchdogTap" /\ body'[k] # body[k]
                /\ device'.faults = device.faults) =>
            /\ device'.calls = Append(device.calls, WaitTap(device.doc))
            /\ uiHierarchyCache' = NoCache
            /\ body'[k].wait = "sleep"]_vars

\* The dialog with its Wait button was on the screen in the pass of
\* runAction and again in a wait: each time the device was sent one tap at
\* the centre of the button, and the cache is empty after the second.
C40_Witness ==
    \E k \in Jobs :
        /\ device.doc = DocDialog
        /\ device.faults = 0
        /\ body[k].wait = "sleep"
        /\ Top(body[k]).kind = "wait" /\ Top(body[k]).at = "pause"
        /\ device.calls = <<<<"inputTap", 20, 30>>, <<"inputTap", 20, 30>>>>
        /\ uiHierarchyCache = NoCache

====
